---- MODULE Spec2Model ----
(***************************************************************************)
(* RepoLens git core: buildGraph / loadRepository, the BFS traversals,     *)
(* createVisualGraph (lane assignment) and optimizeLanes, as one state     *)
(* machine.  Commit hashes are the integers 1..; a Map is a function, a    *)
(* TypeScript array a sequence.                                            *)
(***************************************************************************)
EXTENDS Integers, Sequences, FiniteSets, TLC

\* ------------------------------------------------------------------ bounds
\* Largest number of commits handed to buildGraph.
MaxCommits == 4
\* Largest number of parents of one commit.
MaxParents == 2
\* Largest number of commits in the runs checked for termination.
MaxFairCommits == 3
\* Largest number of commits in the graphs that are traversed.
MaxGraphCommits == 4
\* Largest number of lines of for-each-ref output.
MaxRefs == 2
\* Number of hashes that are referenced as parents but never loaded.
MaxUnloaded == 1
\* commits in a sequence that may list a hash more than once
MaxDupCommits == 3
\* records in the git log output handed to parseCommits
MaxRecords == 2
\* characters in a protected-branch pattern, patterns in the option
MaxPatternLen == 2
MaxPatterns == 2
\* characters in a branch name
MaxNameLen == 2
\* arguments in a command handed to execute, execute calls on one executor
MaxArgs == 3
MaxCalls == 1

\* null where a commit hash is expected (head of an empty repository)
NULL == 0

\* null where a ref name is expected (headRef of a detached HEAD)
NoName == <<>>

LoadableHashes == 1..MaxCommits
UnloadedHashes == (MaxCommits + 1)..(MaxCommits + MaxUnloaded)
Hashes == LoadableHashes \cup UnloadedHashes

\* ----------------------------------------------------------------- helpers
Range(s) == {s[i] : i \in DOMAIN s}

Reverse(s) == [i \in 1..Len(s) |-> s[Len(s) + 1 - i]]

Contains(s, x) == \E i \in DOMAIN s : s[i] = x

Min2(a, b) == IF a <= b THEN a ELSE b

Max2(a, b) == IF a >= b THEN a ELSE b

\* Map.has / Map.get / Map.set / Map.delete on a function
MapHas(m, k) == k \in DOMAIN m

MapSet(m, k, v) == [x \in (DOMAIN m) \cup {k} |-> IF x = k THEN v ELSE m[x]]

MapDelete(m, k) == [x \in (DOMAIN m) \ {k} |-> m[x]]

EmptyMap == [x \in {} |-> NULL]

\* Array.prototype.sort((a, b) => a - b) of a sequence of numbers
RECURSIVE SortAsc(_)
SortAsc(s) ==
  IF Len(s) = 0 THEN <<>>
  ELSE LET i == CHOOSE j \in DOMAIN s : \A k \in DOMAIN s :
                  s[j] < s[k] \/ (s[j] = s[k] /\ j <= k)
       IN <<s[i]>> \o SortAsc([k \in 1..(Len(s) - 1) |-> IF k < i THEN s[k] ELSE s[k + 1]])

\* Array.from(map.keys()).sort((a, b) => a - b)
RECURSIVE SortedKeys(_)
SortedKeys(S) ==
  IF S = {} THEN <<>>
  ELSE LET m == CHOOSE x \in S : \A y \in S : x <= y
       IN <<m>> \o SortedKeys(S \ {m})

\* ------------------------------------------------------------------ inputs
\* Parent lists: up to MaxParents distinct hashes drawn from S, in order.
ParentLists(S) ==
  {p \in UNION {[1..k -> S] : k \in 0..MaxParents} :
      \A i, j \in DOMAIN p : i # j => p[i] # p[j]}

\* Commit sequences of length n listed oldest first: commit i carries hash i
\* and its parents are earlier commits or hashes outside the loaded set.
RECURSIVE OldestFirstSeqs(_)
OldestFirstSeqs(n) ==
  IF n = 0 THEN {<<>>}
  ELSE {Append(s, [hash |-> n, parents |-> p]) :
          s \in OldestFirstSeqs(n - 1),
          p \in ParentLists((1..(n - 1)) \cup UnloadedHashes)}

\* The same histories as git log --topo-order prints them: newest first.
TopoOrderSeqs(n) == {Reverse(s) : s \in OldestFirstSeqs(n)}

\* commit arrays of up to n commits, in either listing order
CommitSeqs(n) == UNION {OldestFirstSeqs(k) \cup TopoOrderSeqs(k) : k \in 0..n}

\* ------------------------------------------------------------- buildGraph
\* commitMap: the last commit listed under each hash
CommitMapOf(cs) ==
  [h \in {cs[i].hash : i \in DOMAIN cs} |->
     cs[CHOOSE i \in DOMAIN cs : cs[i].hash = h /\ \A j \in DOMAIN cs : cs[j].hash = h => j <= i]]

\* children.push(commit.hash) for every parent pointer equal to p, commits in
\* input order and parents in list order
RECURSIVE ChildListOf(_, _, _, _)
ChildListOf(cs, p, i, k) ==
  IF i > Len(cs) THEN <<>>
  ELSE IF k > Len(cs[i].parents) THEN ChildListOf(cs, p, i + 1, 1)
  ELSE (IF cs[i].parents[k] = p THEN <<cs[i].hash>> ELSE <<>>)
         \o ChildListOf(cs, p, i, k + 1)

\* a child index that follows first-parent pointers only
ChildrenMapFirstParentOnly(cs) ==
  [p \in {cs[i].parents[1] : i \in {j \in DOMAIN cs : Len(cs[j].parents) > 0}} |->
     [k \in 1..Len(SelectSeq(cs, LAMBDA c : Len(c.parents) > 0 /\ c.parents[1] = p)) |->
        SelectSeq(cs, LAMBDA c : Len(c.parents) > 0 /\ c.parents[1] = p)[k].hash]]

ChildrenMapOf(cs) ==
  [p \in UNION {Range(cs[i].parents) : i \in DOMAIN cs} |-> ChildListOf(cs, p, 1, 1)]

\* a commitsByRef that keeps the first commit registered under a name
RECURSIVE CommitsByRefFirstWins(_, _, _)
CommitsByRefFirstWins(rfs, i, m) ==
  IF i > Len(rfs) THEN m
  ELSE LET m1 == IF MapHas(m, rfs[i].name) THEN m
                 ELSE MapSet(m, rfs[i].name, rfs[i].commitHash)
           m2 == IF MapHas(m1, rfs[i].fullName) THEN m1
                 ELSE MapSet(m1, rfs[i].fullName, rfs[i].commitHash)
       IN CommitsByRefFirstWins(rfs, i + 1, m2)

\* commitsByRef.set(ref.name, ...); commitsByRef.set(ref.fullName, ...), in list order
RECURSIVE CommitsByRefOf(_, _, _)
CommitsByRefOf(rfs, i, m) ==
  IF i > Len(rfs) THEN m
  ELSE CommitsByRefOf(rfs, i + 1,
         MapSet(MapSet(m, rfs[i].name, rfs[i].commitHash), rfs[i].fullName, rfs[i].commitHash))

RefsByCommitOf(rfs) ==
  [h \in {rfs[i].commitHash : i \in DOMAIN rfs} |->
     SelectSeq(rfs, LAMBDA r : r.commitHash = h)]

\* a roots list that knows only commits without parents
RootsParentlessOnly(cs, commitMap, i) ==
  LET sel == SelectSeq(cs, LAMBDA c : Len(c.parents) = 0)
  IN [k \in 1..Len(sel) |-> sel[k].hash]

RECURSIVE RootsOf(_, _, _)
RootsOf(cs, commitMap, i) ==
  IF i > Len(cs) THEN <<>>
  ELSE (IF Len(cs[i].parents) = 0
          THEN <<cs[i].hash>>
          ELSE IF ~(\E k \in DOMAIN cs[i].parents : MapHas(commitMap, cs[i].parents[k]))
                 THEN <<cs[i].hash>>
                 ELSE <<>>)
       \o RootsOf(cs, commitMap, i + 1)

buildGraph(cs, rfs, hc, hr) ==
  LET commitMap == CommitMapOf(cs)
  IN [commits          |-> commitMap,
      refs             |-> rfs,
      head             |-> hc,
      headRef          |-> hr,
      children         |-> ChildrenMapOf(cs),
      commitsByRef     |-> CommitsByRefOf(rfs, 1, EmptyMap),
      refsByCommit     |-> RefsByCommitOf(rfs),
      roots            |-> RootsOf(cs, commitMap, 1),
      topologicalOrder |-> [i \in 1..Len(cs) |-> cs[i].hash]]

\* ------------------------------------------------------------------ parser
\* Text is a sequence of tokens; a ref name such as origin/main is
\* <<"origin", "/", "main">>.
Whitespace == {" ", "\n"}

RECURSIVE TrimStart(_)
TrimStart(s) == IF Len(s) > 0 /\ Head(s) \in Whitespace THEN TrimStart(Tail(s)) ELSE s

\* String.prototype.trim
Trim(s) == Reverse(TrimStart(Reverse(TrimStart(s))))

StartsWith(s, prefix) ==
  Len(s) >= Len(prefix) /\ SubSeq(s, 1, Len(prefix)) = prefix

EndsWith(s, suffix) ==
  Len(s) >= Len(suffix) /\ SubSeq(s, Len(s) - Len(suffix) + 1, Len(s)) = suffix

\* s.slice(prefix.length)
SliceAfter(s, prefix) == SubSeq(s, Len(prefix) + 1, Len(s))

HeadsPrefix == <<"refs", "/", "heads", "/">>
RemotesPrefix == <<"refs", "/", "remotes", "/">>
TagsPrefix == <<"refs", "/", "tags", "/">>

\* /^[a-f0-9]{40}$/i: the hashes of the model are the well-formed ones
isValidHash(h) == h \in Hashes

\* A pattern is turned into a regular expression: . + ^ $ { } ( ) | [ ] \
\* are escaped and "*" becomes ".*". "?" is left as it is, the quantifier
\* of the character or ".*" before it; a token followed by "?" is one
\* character.
\* the number of "?" in a row from position j of the pattern
RECURSIVE QuestionRun(_, _)
QuestionRun(pattern, j) ==
  IF j <= Len(pattern) /\ pattern[j] = "?" THEN 1 + QuestionRun(pattern, j + 1) ELSE 0

\* new RegExp throws a SyntaxError, nothing to repeat: "?" right after "^",
\* a third "?" after a character, a second after ".*"
RegExpThrows(pattern) ==
  \E j \in DOMAIN pattern :
     /\ pattern[j] = "?"
     /\ \/ j = 1
        \/ /\ pattern[j - 1] # "?"
           /\ QuestionRun(pattern, j) > (IF pattern[j - 1] = "*" THEN 1 ELSE 2)

\* regex.test: value matches the expression from positions i and j on
RECURSIVE GlobFrom(_, _, _, _)
GlobFrom(value, i, pattern, j) ==
  IF j > Len(pattern) THEN i > Len(value)
  ELSE LET optional == QuestionRun(pattern, j + 1) > 0
           next == j + 1 + QuestionRun(pattern, j + 1)
       IN IF pattern[j] = "*"
            THEN \E n \in i..(Len(value) + 1) : GlobFrom(value, n, pattern, next)
            ELSE \/ optional /\ GlobFrom(value, i, pattern, next)
                 \/ /\ i <= Len(value)
                    /\ value[i] = pattern[j]
                    /\ GlobFrom(value, i + 1, pattern, next)

\* matchGlob of a pattern whose expression new RegExp accepts
matchGlob(value, pattern) == pattern = value \/ GlobFrom(value, 1, pattern, 1)

\* matchesProtectedPattern from pattern i on: "true", "false", or
\* "SyntaxError" when matchGlob throws before a pattern matches
RECURSIVE ProtectedOutcome(_, _, _)
ProtectedOutcome(name, patterns, i) ==
  IF i > Len(patterns) THEN "false"
  ELSE IF patterns[i] = name THEN "true"
  ELSE IF RegExpThrows(patterns[i]) THEN "SyntaxError"
  ELSE IF matchGlob(name, patterns[i]) THEN "true"
  ELSE ProtectedOutcome(name, patterns, i + 1)

matchesProtectedPattern(name, patterns) == ProtectedOutcome(name, patterns, 1) = "true"

\* "origin/main" -> "origin"
extractRemoteName(name) ==
  IF ~Contains(name, "/") THEN name
  ELSE SubSeq(name, 1, (CHOOSE i \in DOMAIN name :
                          name[i] = "/" /\ \A j \in 1..(i - 1) : name[j] # "/") - 1)

\* one line of for-each-ref output, already split on whitespace into parts
parseRefLine(parts, headBranch, protectedPatterns) ==
  IF Len(parts) < 2 THEN [ok |-> FALSE, error |-> "malformed_record"]
  ELSE IF ~isValidHash(parts[1]) THEN [ok |-> FALSE, error |-> "invalid_hash"]
  ELSE IF Len(parts[2]) = 0 THEN [ok |-> FALSE, error |-> "malformed_record"]
  ELSE
    LET commitHash == parts[1]
        fullName == parts[2]
    IN IF StartsWith(fullName, HeadsPrefix)
         THEN LET name == SliceAfter(fullName, HeadsPrefix)
              IN [ok |-> TRUE,
                  ref |-> [name |-> name, fullName |-> fullName, commitHash |-> commitHash,
                           type |-> "local", isHead |-> name = headBranch,
                           isProtected |-> matchesProtectedPattern(name, protectedPatterns)]]
       ELSE IF StartsWith(fullName, RemotesPrefix)
         THEN LET name == SliceAfter(fullName, RemotesPrefix)
              IN IF EndsWith(name, <<"/", "HEAD">>)
                   THEN [ok |-> FALSE, skip |-> TRUE]
                   ELSE [ok |-> TRUE,
                         ref |-> [name |-> name, fullName |-> fullName,
                                  commitHash |-> commitHash, type |-> "remote",
                                  isHead |-> FALSE, remoteName |-> extractRemoteName(name),
                                  isProtected |->
                                    matchesProtectedPattern(name, protectedPatterns)]]
       ELSE IF StartsWith(fullName, TagsPrefix)
         THEN LET name == SliceAfter(fullName, TagsPrefix)
              IN [ok |-> TRUE,
                  ref |-> [name |-> name, fullName |-> fullName, commitHash |-> commitHash,
                           type |-> "tag", isHead |-> FALSE,
                           isAnnotated |-> Len(parts) >= 3 /\ parts[3] = "tag"]]
       ELSE [ok |-> FALSE, skip |-> TRUE]

\* parseRefs over the non-blank lines; refs and errors in line order
RECURSIVE parseRefs(_, _, _)
parseRefs(lines, headBranch, protectedPatterns) ==
  IF Len(lines) = 0 THEN [refs |-> <<>>, errors |-> <<>>]
  ELSE LET r == parseRefLine(Head(lines), headBranch, protectedPatterns)
           rest == parseRefs(Tail(lines), headBranch, protectedPatterns)
       IN IF r.ok THEN [rest EXCEPT !.refs = <<r.ref>> \o @]
          ELSE IF "error" \in DOMAIN r THEN [rest EXCEPT !.errors = <<r.error>> \o @]
          ELSE rest

\* parseRefs throws: a branch line reaches a pattern new RegExp rejects
parseRefsThrows(lines, headBranch, protectedPatterns) ==
  \E i \in DOMAIN lines :
     LET r == parseRefLine(lines[i], headBranch, protectedPatterns)
     IN /\ r.ok
        /\ r.ref.type \in {"local", "remote"}
        /\ ProtectedOutcome(r.ref.name, protectedPatterns, 1) = "SyntaxError"

\* parseHead: symbolicRefOutput is text or NoName for null; revParseOutput a
\* hash or NULL
parseHead(symbolicRefOutput, revParseOutput) ==
  [headRef    |-> IF Len(Trim(symbolicRefOutput)) > 0 THEN Trim(symbolicRefOutput) ELSE NoName,
   headCommit |-> IF revParseOutput # NULL /\ isValidHash(revParseOutput)
                    THEN revParseOutput ELSE NULL]

\* ------------------------------------------------------ git log parsing
\* The text of git log as a sequence of characters and words: the two
\* separators, white space, a word of 40 hex digits spelling hash h, an ISO
\* 8601 date, and any other word.
RECORD_SEPARATOR == <<"x01", 0>>
FIELD_SEPARATOR == <<"x00", 0>>
Space == <<"space", 0>>
HexWord(h) == <<"hex", h>>
IsoDate == <<"date", 0>>
OtherWord == <<"word", 0>>

EXPECTED_FIELDS == 10

\* s.trim().length === 0
IsBlank(s) == \A i \in DOMAIN s : s[i] = Space

RECURSIVE TrimTextStart(_)
TrimTextStart(s) == IF Len(s) > 0 /\ Head(s) = Space THEN TrimTextStart(Tail(s)) ELSE s

\* String.prototype.trim on log text
TrimText(s) == Reverse(TrimTextStart(Reverse(TrimTextStart(s))))

\* String.prototype.split(separator)
RECURSIVE SplitOn(_, _)
SplitOn(s, sep) ==
  IF \E i \in DOMAIN s : s[i] = sep
    THEN LET i == CHOOSE k \in DOMAIN s : s[k] = sep /\ \A j \in 1..(k - 1) : s[j] # sep
         IN <<SubSeq(s, 1, i - 1)>> \o SplitOn(SubSeq(s, i + 1, Len(s)), sep)
    ELSE <<s>>

\* split(/\s+/).filter((h) => h.length > 0)
WordsOf(s) == SelectSeq(SplitOn(s, Space), LAMBDA w : Len(w) > 0)

\* the hash a word of 40 hex digits spells; no hash for any other text
HashOfText(w) == IF Len(w) = 1 /\ w[1][1] = "hex" THEN w[1][2] ELSE NULL

parseParentHashes(raw) ==
  LET valid == SelectSeq(WordsOf(TrimText(raw)), LAMBDA w : isValidHash(HashOfText(w)))
  IN [i \in DOMAIN valid |-> HashOfText(valid[i])]

\* TRUE iff parseDate returns a Date rather than null
parseDate(raw) == TrimText(raw) = <<IsoDate>>

\* a record parser that validates the hash field as it stands, untrimmed
parseCommitRecordUntrimmed(record) ==
  LET fields == SplitOn(record, FIELD_SEPARATOR)
  IN IF Len(fields) < EXPECTED_FIELDS - 1 THEN [ok |-> FALSE, error |-> "malformed_record"]
     ELSE IF ~isValidHash(HashOfText(fields[1]))
       THEN [ok |-> FALSE, error |-> "invalid_hash"]
     ELSE IF ~parseDate(fields[5]) THEN [ok |-> FALSE, error |-> "invalid_date"]
     ELSE IF ~parseDate(fields[8]) THEN [ok |-> FALSE, error |-> "invalid_date"]
     ELSE [ok |-> TRUE,
           commit |-> [hash |-> HashOfText(fields[1]),
                       parents |-> parseParentHashes(fields[2])]]

parseCommitRecord(record) ==
  LET fields == SplitOn(record, FIELD_SEPARATOR)
  IN IF Len(fields) < EXPECTED_FIELDS - 1 THEN [ok |-> FALSE, error |-> "malformed_record"]
     ELSE LET hash == HashOfText(TrimText(fields[1]))
          IN IF ~isValidHash(hash) THEN [ok |-> FALSE, error |-> "invalid_hash"]
             ELSE IF ~parseDate(fields[5]) THEN [ok |-> FALSE, error |-> "invalid_date"]
             ELSE IF ~parseDate(fields[8]) THEN [ok |-> FALSE, error |-> "invalid_date"]
             ELSE [ok |-> TRUE,
                   commit |-> [hash |-> hash, parents |-> parseParentHashes(fields[2])]]

\* the loop over the records: each is parsed on its own
RECURSIVE ParseRecords(_)
ParseRecords(records) ==
  IF Len(records) = 0 THEN [commits |-> <<>>, errors |-> <<>>]
  ELSE LET r == parseCommitRecord(Head(records))
           rest == ParseRecords(Tail(records))
       IN IF r.ok THEN [rest EXCEPT !.commits = <<r.commit>> \o @]
          ELSE [rest EXCEPT !.errors = <<r.error>> \o @]

parseCommits(raw) ==
  IF IsBlank(raw) THEN [commits |-> <<>>, errors |-> <<>>]
  ELSE ParseRecords(SelectSeq(SplitOn(raw, RECORD_SEPARATOR), LAMBDA r : ~IsBlank(r)))

\* --------------------------------------------------------- loadRepository
\* What git prints for a repository holding `cs`, `rfs` and a HEAD.
\* fields joined by the field separator
RECURSIVE JoinFields(_)
JoinFields(fields) ==
  IF Len(fields) = 0 THEN <<>>
  ELSE IF Len(fields) = 1 THEN fields[1]
  ELSE fields[1] \o <<FIELD_SEPARATOR>> \o JoinFields(Tail(fields))

\* hashes separated by one space, as %P prints them
RECURSIVE JoinHashes(_)
JoinHashes(hs) ==
  IF Len(hs) = 0 THEN <<>>
  ELSE IF Len(hs) = 1 THEN <<HexWord(hs[1])>>
  ELSE <<HexWord(hs[1]), Space>> \o JoinHashes(Tail(hs))

\* one commit in the format %H%x00%P%x00%an%x00%ae%x00%aI%x00%cn%x00%ce%x00%cI%x00%s%x00%b%x01
\* followed by the newline git log puts after each entry
LogRecord(c) ==
  JoinFields(<<<<HexWord(c.hash)>>, JoinHashes(c.parents), <<OtherWord>>, <<OtherWord>>,
               <<IsoDate>>, <<OtherWord>>, <<OtherWord>>, <<IsoDate>>, <<OtherWord>>,
               <<OtherWord>>>>)
    \o <<RECORD_SEPARATOR, Space>>

RECURSIVE LogOutput(_)
LogOutput(cs) == IF Len(cs) = 0 THEN <<>> ELSE LogRecord(Head(cs)) \o LogOutput(Tail(cs))


RefsOutput(rfs) ==
  [i \in DOMAIN rfs |->
     <<rfs[i].commitHash, rfs[i].fullName,
       IF rfs[i].type = "tag" /\ rfs[i].isAnnotated THEN "tag" ELSE "commit">>]

\* loadRepository given the outcome of each git command: "ok" (exit code 0),
\* "nonzero" (ran, exit code not 0) or "error" (the executor returned an error)
loadRepository(verify, headRefRun, headCommitRun, logRun, refsRun, cs, rfs, hc, hr) ==
  IF verify = "error" THEN [ok |-> FALSE, error |-> "executor_error"]
  ELSE IF verify = "nonzero" THEN [ok |-> FALSE, error |-> "not_a_repo"]
  ELSE
    LET headRefOutput == IF headRefRun = "ok" THEN hr \o <<"\n">> ELSE NoName
        headCommitOutput == IF headCommitRun = "ok" THEN hc ELSE NULL
        hd == parseHead(headRefOutput, headCommitOutput)
    IN IF hd.headCommit = NULL
         THEN [ok |-> TRUE, graph |-> buildGraph(<<>>, <<>>, NULL, NoName),
               warnings |-> <<"Repository has no commits">>]
       ELSE IF logRun = "error" THEN [ok |-> FALSE, error |-> "executor_error"]
       ELSE IF logRun = "nonzero" THEN [ok |-> FALSE, error |-> "command_failed"]
       ELSE
         LET parsed == parseCommits(LogOutput(cs))
             parsedRefs == IF refsRun = "ok"
                             THEN parseRefs(RefsOutput(rfs), hd.headRef, <<>>)
                             ELSE [refs |-> <<>>, errors |-> <<>>]
         IN [ok |-> TRUE,
             graph |-> buildGraph(parsed.commits, parsedRefs.refs, hd.headCommit, hd.headRef),
             warnings |-> parsed.errors \o parsedRefs.errors]

\* -------------------------------------------------------------- traversal
\* maxDepth = Infinity: larger than any depth a traversal reaches
Infinity == 99

\* `for (const parent of parents) if (!visited.has(parent)) { visited.add;
\* queue.push({hash, depth}) }`
RECURSIVE EnqueueUnvisited(_, _, _, _, _)
EnqueueUnvisited(hashes, k, depth, queue, visited) ==
  IF k > Len(hashes) THEN [queue |-> queue, visited |-> visited]
  ELSE IF hashes[k] \in visited THEN EnqueueUnvisited(hashes, k + 1, depth, queue, visited)
  ELSE EnqueueUnvisited(hashes, k + 1, depth,
                        Append(queue, [hash |-> hashes[k], depth |-> depth]),
                        visited \cup {hashes[k]})

ParentsIn(g, h) == IF MapHas(g.commits, h) THEN g.commits[h].parents ELSE <<>>

ChildrenIn(g, h) == IF MapHas(g.children, h) THEN g.children[h] ELSE <<>>

\* the while loop of getAncestors
RECURSIVE AncestorsLoop(_, _, _, _, _)
AncestorsLoop(g, queue, visited, ancestors, maxDepth) ==
  IF Len(queue) = 0 THEN ancestors
  ELSE LET current == Head(queue)
       IN IF current.depth > maxDepth
            THEN AncestorsLoop(g, Tail(queue), visited, ancestors, maxDepth)
            ELSE LET e == EnqueueUnvisited(ParentsIn(g, current.hash), 1, current.depth + 1,
                                           Tail(queue), visited)
                 IN AncestorsLoop(g, e.queue, e.visited,
                                  Append(ancestors, current.hash), maxDepth)

\* a traversal that starts from the commit itself
getAncestorsFromSelf(g, commitHash, maxDepth) ==
  IF ~MapHas(g.commits, commitHash) THEN <<>>
  ELSE AncestorsLoop(g, <<[hash |-> commitHash, depth |-> 0]>>, {commitHash}, <<>>, maxDepth)

getAncestors(g, commitHash, maxDepth) ==
  IF ~MapHas(g.commits, commitHash) THEN <<>>
  ELSE LET e == EnqueueUnvisited(g.commits[commitHash].parents, 1, 1, <<>>, {})
       IN AncestorsLoop(g, e.queue, e.visited, <<>>, maxDepth)

\* the first loop of findMergeBase: hash1 and everything reachable from it
RECURSIVE ReachableLoop(_, _, _)
ReachableLoop(g, queue, seen) ==
  IF Len(queue) = 0 THEN seen
  ELSE LET e == EnqueueUnvisited(ParentsIn(g, Head(queue)), 1, 0, <<>>, seen)
       IN ReachableLoop(g, Tail(queue) \o [i \in DOMAIN e.queue |-> e.queue[i].hash],
                        e.visited)

\* the loop over the parents of one commit in the second BFS of findMergeBase:
\* returns the first parent in ancestors1, or enqueues the unvisited ones
RECURSIVE MergeBaseParents(_, _, _, _, _)
MergeBaseParents(parents, k, ancestors1, queue, visited) ==
  IF k > Len(parents) THEN [found |-> NULL, queue |-> queue, visited |-> visited]
  ELSE IF parents[k] \in ancestors1
    THEN [found |-> parents[k], queue |-> queue, visited |-> visited]
  ELSE IF parents[k] \in visited
    THEN MergeBaseParents(parents, k + 1, ancestors1, queue, visited)
  ELSE MergeBaseParents(parents, k + 1, ancestors1, Append(queue, parents[k]),
                        visited \cup {parents[k]})

RECURSIVE MergeBaseLoop(_, _, _, _)
MergeBaseLoop(g, ancestors1, queue, visited) ==
  IF Len(queue) = 0 THEN NULL
  ELSE LET r == MergeBaseParents(ParentsIn(g, Head(queue)), 1, ancestors1,
                                 Tail(queue), visited)
       IN IF r.found # NULL THEN r.found
          ELSE MergeBaseLoop(g, ancestors1, r.queue, r.visited)

\* a merge base search that never tests hash2 itself
findMergeBaseSkipsSelf(g, hash1, hash2) ==
  MergeBaseLoop(g, ReachableLoop(g, <<hash1>>, {hash1}), <<hash2>>, {hash2})

findMergeBase(g, hash1, hash2) ==
  LET ancestors1 == ReachableLoop(g, <<hash1>>, {hash1})
  IN IF hash2 \in ancestors1 THEN hash2
     ELSE MergeBaseLoop(g, ancestors1, <<hash2>>, {hash2})

\* the loop over the parents of one commit in the second BFS of
\* getCommitsBetween: an unvisited parent is marked, and reported and
\* enqueued unless it is excluded
RECURSIVE BetweenParents(_, _, _, _, _, _)
BetweenParents(parents, k, excluded, queue, visited, result) ==
  IF k > Len(parents) THEN [queue |-> queue, visited |-> visited, result |-> result]
  ELSE IF parents[k] \in visited
    THEN BetweenParents(parents, k + 1, excluded, queue, visited, result)
  ELSE IF parents[k] \in excluded
    THEN BetweenParents(parents, k + 1, excluded, queue, visited \cup {parents[k]}, result)
  ELSE BetweenParents(parents, k + 1, excluded, Append(queue, parents[k]),
                      visited \cup {parents[k]}, Append(result, parents[k]))

RECURSIVE BetweenLoop(_, _, _, _, _)
BetweenLoop(g, excluded, queue, visited, result) ==
  IF Len(queue) = 0 THEN result
  ELSE LET r == BetweenParents(ParentsIn(g, Head(queue)), 1, excluded, Tail(queue),
                               visited, result)
       IN BetweenLoop(g, excluded, r.queue, r.visited, r.result)

\* a variant that reports includeRef without looking at the excluded set
getCommitsBetweenKeepsInclude(g, includeRef, excludeRef) ==
  BetweenLoop(g, ReachableLoop(g, <<excludeRef>>, {excludeRef}), <<includeRef>>,
              {includeRef}, <<includeRef>>)

\* the first loop collects excludeRef and its ancestors as findMergeBase's
\* first loop collects those of hash1
getCommitsBetween(g, includeRef, excludeRef) ==
  LET excluded == ReachableLoop(g, <<excludeRef>>, {excludeRef})
  IN BetweenLoop(g, excluded, <<includeRef>>, {includeRef},
                 IF includeRef \in excluded THEN <<>> ELSE <<includeRef>>)

\* the while loop of getDescendants
RECURSIVE DescendantsLoop(_, _, _, _, _)
DescendantsLoop(g, queue, visited, descendants, maxDepth) ==
  IF Len(queue) = 0 THEN descendants
  ELSE LET current == Head(queue)
       IN IF current.depth > maxDepth
            THEN DescendantsLoop(g, Tail(queue), visited, descendants, maxDepth)
            ELSE LET e == EnqueueUnvisited(ChildrenIn(g, current.hash), 1, current.depth + 1,
                                           Tail(queue), visited)
                 IN DescendantsLoop(g, e.queue, e.visited,
                                    Append(descendants, current.hash), maxDepth)

getDescendants(g, commitHash, maxDepth) ==
  LET e == EnqueueUnvisited(ChildrenIn(g, commitHash), 1, 1, <<>>, {})
  IN DescendantsLoop(g, e.queue, e.visited, <<>>, maxDepth)

\* ------------------------------------------------------ createVisualGraph
\* allocateLane: the lowest free lane, else a new one; returns lane and state
allocateLane(st) ==
  IF Len(st.freeLanes) > 0
    THEN LET sorted == SortAsc(st.freeLanes)
         IN [lane |-> Head(sorted), state |-> [st EXCEPT !.freeLanes = Tail(sorted)]]
    ELSE [lane |-> st.maxLane + 1, state |-> [st EXCEPT !.maxLane = st.maxLane + 1]]

freeLane(st, lane) ==
  [st EXCEPT !.freeLanes = IF Contains(@, lane) THEN @ ELSE Append(@, lane),
             !.activeLanes = MapDelete(@, lane)]

\* a lane choice that ignores the reservation a child made
OwnLaneAlwaysAllocate(st, hash) == allocateLane(st)

\* the commit's own lane: the one a child reserved, else a fresh one
OwnLane(st, hash) ==
  IF MapHas(st.laneByCommit, hash)
    THEN [lane |-> st.laneByCommit[hash], state |-> st]
    ELSE allocateLane(st)

\* a reservation that gives every parent without a lane a fresh one
ParentLaneNeverInherit(st, parentHash, isFirstParent, lane) ==
  IF MapHas(st.laneByCommit, parentHash)
    THEN [lane |-> st.laneByCommit[parentHash], state |-> st]
    ELSE LET a == allocateLane(st)
         IN [lane |-> a.lane,
             state |-> [a.state EXCEPT !.laneByCommit = MapSet(@, parentHash, a.lane)]]

\* a reservation that lets every first-parent edge claim the child's lane,
\* whether or not the parent already holds one
ParentLaneAlwaysReserve(st, parentHash, isFirstParent, lane) ==
  IF isFirstParent
    THEN [lane |-> lane,
          state |-> [st EXCEPT !.laneByCommit = MapSet(@, parentHash, lane)]]
    ELSE IF MapHas(st.laneByCommit, parentHash)
      THEN [lane |-> st.laneByCommit[parentHash], state |-> st]
      ELSE LET a == allocateLane(st)
           IN [lane |-> a.lane,
               state |-> [a.state EXCEPT !.laneByCommit = MapSet(@, parentHash, a.lane)]]

\* the lane of one parent, reserving it when no child has done so before
ParentLane(st, parentHash, isFirstParent, lane) ==
  IF MapHas(st.laneByCommit, parentHash)
    THEN [lane |-> st.laneByCommit[parentHash], state |-> st]
    ELSE IF isFirstParent
      THEN [lane |-> lane,
            state |-> [st EXCEPT !.laneByCommit = MapSet(@, parentHash, lane)]]
      ELSE LET a == allocateLane(st)
           IN [lane |-> a.lane,
               state |-> [a.state EXCEPT !.laneByCommit = MapSet(@, parentHash, a.lane)]]

\* an edge typing that calls every edge of a merge commit a merge
EdgeTypeAnyParentOfMerge(commit, parentIndex, lane, parentLane) ==
  IF Len(commit.parents) > 1 THEN "merge"
  ELSE IF lane # parentLane THEN "fork"
  ELSE "straight"

EdgeTypeOf(commit, parentIndex, lane, parentLane) ==
  IF Len(commit.parents) > 1 /\ parentIndex > 0 THEN "merge"
  ELSE IF lane # parentLane THEN "fork"
  ELSE "straight"

\* `${hash}-${parentHash}-${parentIndex}`
EdgeId(hash, parentHash, parentIndex) == <<hash, parentHash, parentIndex>>

\* the loop over commit.parents (parentIndex = k - 1); acc carries the lane
\* state, the edges array, edgeById and this commit's edgeIds
RECURSIVE ReserveParents(_, _, _, _, _)
ReserveParents(acc, commit, lane, row, k) ==
  IF k > Len(commit.parents) THEN acc
  ELSE LET parentHash == commit.parents[k]
           parentIndex == k - 1
           pl == ParentLane(acc.state, parentHash, parentIndex = 0, lane)
           edgeId == EdgeId(commit.hash, parentHash, parentIndex)
           edge == [id          |-> edgeId,
                    fromHash    |-> commit.hash,
                    toHash      |-> parentHash,
                    fromRow     |-> row,
                    fromLane    |-> lane,
                    toRow       |-> -1,
                    toLane      |-> pl.lane,
                    type        |-> EdgeTypeOf(commit, parentIndex, lane, pl.lane),
                    parentIndex |-> parentIndex]
       IN ReserveParents([state    |-> pl.state,
                          edges    |-> Append(acc.edges, edge),
                          edgeIds  |-> Append(acc.edgeIds, edgeId),
                          edgeById |-> MapSet(acc.edgeById, edgeId, edge)],
                         commit, lane, row, k + 1)

\* a freeing policy that does not look at the reservations of the parents
FreeOwnLaneIgnoringReservation(st, g, commit, lane, commitByHash) ==
  LET children == IF MapHas(g.children, commit.hash) THEN g.children[commit.hash] ELSE <<>>
      hasChildInSameLane ==
        \E i \in DOMAIN children :
           MapHas(commitByHash, children[i]) /\ commitByHash[children[i]].lane = lane
  IN IF (Len(children) = 0 \/ ~hasChildInSameLane) /\ lane > 0
       THEN freeLane(st, lane)
       ELSE st

\* lane-freeing policy applied after the parents of `commit` are reserved
FreeOwnLane(st, g, commit, lane, commitByHash) ==
  LET children == IF MapHas(g.children, commit.hash) THEN g.children[commit.hash] ELSE <<>>
      hasChildInSameLane ==
        \E i \in DOMAIN children :
           MapHas(commitByHash, children[i]) /\ commitByHash[children[i]].lane = lane
      isLaneReservedForParent ==
        \E k \in DOMAIN commit.parents :
           MapHas(st.laneByCommit, commit.parents[k])
             /\ st.laneByCommit[commit.parents[k]] = lane
  IN IF (Len(children) = 0 \/ ~hasChildInSameLane) /\ ~isLaneReservedForParent /\ lane > 0
       THEN freeLane(st, lane)
       ELSE st

\* Array.from(state.activeLanes.keys()).sort(...)
ActiveLaneSnapshot(st) == SortedKeys(DOMAIN st.activeLanes)

\* options.protectedBranches ?? [] of a call without that option
DefaultProtectedBranches == <<>>

\* matchesProtectedPattern of the layout module from pattern i on, which
\* builds the same expression as the parser's matchGlob
RECURSIVE LayoutProtectedOutcome(_, _, _)
LayoutProtectedOutcome(name, patterns, i) ==
  IF i > Len(patterns) THEN "false"
  ELSE IF patterns[i] = name THEN "true"
  ELSE IF RegExpThrows(patterns[i]) THEN "SyntaxError"
  ELSE IF GlobFrom(name, 1, patterns[i], 1) THEN "true"
  ELSE LayoutProtectedOutcome(name, patterns, i + 1)

toVisualRef(ref, patterns) ==
  [name |-> ref.name, type |-> ref.type, isHead |-> ref.isHead,
   isProtected |-> LayoutProtectedOutcome(ref.name, patterns, 1) = "true"]

toVisualRefThrows(ref, patterns) ==
  LayoutProtectedOutcome(ref.name, patterns, 1) = "SyntaxError"

\* locals of createVisualGraph before the first row
LayoutStart(g) ==
  [state |-> [laneByCommit |-> EmptyMap, activeLanes |-> EmptyMap,
              freeLanes |-> <<>>, maxLane |-> -1],
   commits |-> <<>>, edges |-> <<>>,
   commitByHash |-> EmptyMap, commitByRow |-> EmptyMap, edgeById |-> EmptyMap,
   activeLanesAtRow |-> EmptyMap,
   orderedHashes |-> Reverse(g.topologicalOrder),
   row |-> 0]

\* the iteration throws: a ref of the commit reaches a pattern new RegExp
\* rejects
LayoutRowThrows(L, g, patterns) ==
  LET hash == L.orderedHashes[L.row + 1]
      refsAtCommit == IF MapHas(g.refsByCommit, hash) THEN g.refsByCommit[hash] ELSE <<>>
  IN /\ MapHas(g.commits, hash)
     /\ \E i \in DOMAIN refsAtCommit : toVisualRefThrows(refsAtCommit[i], patterns)

\* one iteration of `for (let row = 0; row < orderedHashes.length; row++)`
LayoutRowOf(L, g, patterns) ==
  LET hash == L.orderedHashes[L.row + 1]
  IN IF ~MapHas(g.commits, hash) THEN [L EXCEPT !.row = @ + 1]
     ELSE
       LET commit == g.commits[hash]
           own == OwnLane(L.state, hash)
           lane == own.lane
           st1 == [own.state EXCEPT !.activeLanes = MapSet(@, lane, hash)]
           refsAtCommit == IF MapHas(g.refsByCommit, hash) THEN g.refsByCommit[hash] ELSE <<>>
           visualRefs == [i \in DOMAIN refsAtCommit |-> toVisualRef(refsAtCommit[i], patterns)]
           res == ReserveParents([state |-> st1, edges |-> L.edges, edgeIds |-> <<>>,
                                  edgeById |-> L.edgeById], commit, lane, L.row, 1)
           st2 == FreeOwnLane(res.state, g, commit, lane, L.commitByHash)
           currentActiveLanes == ActiveLaneSnapshot(st2)
           st3 == IF MapHas(st2.activeLanes, lane) /\ st2.activeLanes[lane] = hash
                    THEN [st2 EXCEPT !.activeLanes = MapDelete(@, lane)]
                    ELSE st2
           visualCommit ==
             [hash        |-> hash,
              row         |-> L.row,
              lane        |-> lane,
              isMerge     |-> Len(commit.parents) > 1,
              isBranchTip |-> Len(refsAtCommit) > 0,
              isRoot      |-> Len(commit.parents) = 0
                                \/ \A k \in DOMAIN commit.parents :
                                      ~MapHas(g.commits, commit.parents[k]),
              isHead      |-> hash = g.head,
              refs        |-> visualRefs,
              edgeIds     |-> res.edgeIds]
       IN [L EXCEPT !.state = st3,
                    !.commits = Append(@, visualCommit),
                    !.edges = res.edges,
                    !.edgeById = res.edgeById,
                    !.commitByHash = MapSet(@, hash, visualCommit),
                    !.commitByRow = MapSet(@, L.row, visualCommit),
                    !.activeLanesAtRow = MapSet(@, L.row, currentActiveLanes),
                    !.row = @ + 1]

\* second pass: every edge whose target was placed gets that commit's row,
\* in the edges array and in edgeById
\* a second pass that assumes the target sits on the next row
FillToRowNextRow(edge, commitByHash) ==
  IF MapHas(commitByHash, edge.toHash)
    THEN [edge EXCEPT !.toRow = edge.fromRow + 1]
    ELSE edge

FillToRow(edge, commitByHash) ==
  IF MapHas(commitByHash, edge.toHash)
    THEN [edge EXCEPT !.toRow = commitByHash[edge.toHash].row]
    ELSE edge

\* a second pass that leaves edgeById as the main loop built it
FillEdgeByIdArrayOnly(byId, edges, commitByHash, i) == byId

\* edgeById after the second pass: edgeById.set(edge.id, updatedEdge) for
\* every edge, in array order, whose target was placed
RECURSIVE FillEdgeById(_, _, _, _)
FillEdgeById(byId, edges, commitByHash, i) ==
  IF i > Len(edges) THEN byId
  ELSE FillEdgeById(
         IF MapHas(commitByHash, edges[i].toHash)
           THEN MapSet(byId, edges[i].id, FillToRow(edges[i], commitByHash))
           ELSE byId,
         edges, commitByHash, i + 1)

\* the value createVisualGraph returns
LayoutResult(L) ==
  [commits          |-> L.commits,
   edges            |-> [i \in DOMAIN L.edges |-> FillToRow(L.edges[i], L.commitByHash)],
   totalRows        |-> Len(L.commits),
   totalLanes       |-> L.state.maxLane + 1,
   commitByHash     |-> L.commitByHash,
   commitByRow      |-> L.commitByRow,
   edgeById         |-> FillEdgeById(L.edgeById, L.edges, L.commitByHash, 1),
   activeLanesAtRow |-> L.activeLanesAtRow]

\* ---------------------------------------------------------- optimizeLanes
edgesCross(e1, e2) ==
  LET e1MinRow == Min2(e1.fromRow, e1.toRow)
      e1MaxRow == Max2(e1.fromRow, e1.toRow)
      e2MinRow == Min2(e2.fromRow, e2.toRow)
      e2MaxRow == Max2(e2.fromRow, e2.toRow)
      e1Dir == e1.toLane - e1.fromLane
      e2Dir == e2.toLane - e2.fromLane
      e1Left == Min2(e1.fromLane, e1.toLane)
      e1Right == Max2(e1.fromLane, e1.toLane)
      e2Left == Min2(e2.fromLane, e2.toLane)
      e2Right == Max2(e2.fromLane, e2.toLane)
  IN IF e1MaxRow <= e2MinRow \/ e2MaxRow <= e1MinRow THEN FALSE
     ELSE IF e1Dir = 0 \/ e2Dir = 0 THEN FALSE
     ELSE IF e1Right <= e2Left \/ e2Right <= e1Left THEN FALSE
     ELSE (e1Dir > 0) # (e2Dir > 0)

countCrossings(edges) ==
  Cardinality({p \in (DOMAIN edges) \X (DOMAIN edges) :
                 p[1] < p[2] /\ edgesCross(edges[p[1]], edges[p[2]])})

\* mapping.get(l) ?? l
MapLane(mapping, l) == IF MapHas(mapping, l) THEN mapping[l] ELSE l

remapEdgeLanes(edges, mapping) ==
  [i \in DOMAIN edges |->
     [edges[i] EXCEPT !.fromLane = MapLane(mapping, @), !.toLane = MapLane(mapping, @)]]


\* the tentative mapping with the entries of lane and lane + 1 exchanged
SwapLanes(mapping, lane) ==
  [mapping EXCEPT ![lane] = mapping[lane + 1], ![lane + 1] = mapping[lane]]

\* whether the tentative swap is kept; crossings is the count taken once,
\* of the input graph, before the loop
KeepSwap(newCrossings, crossings) == newCrossings < crossings

\* a relabelling of the commits that leaves the edges in their old lanes
applyLaneMappingCommitsOnly(vg, mapping) ==
  LET newCommits == [i \in DOMAIN vg.commits |->
                       [vg.commits[i] EXCEPT !.lane = MapLane(mapping, @)]]
  IN [vg EXCEPT !.commits = newCommits,
                !.commitByHash = [h \in DOMAIN @ |-> [@[h] EXCEPT !.lane = MapLane(mapping, @)]],
                !.commitByRow = [r \in DOMAIN @ |-> [@[r] EXCEPT !.lane = MapLane(mapping, @)]]]

\* a relabelling that recounts the lanes from the commits it finds
applyLaneMappingRecount(vg, mapping) ==
  LET newCommits == [i \in DOMAIN vg.commits |->
                       [vg.commits[i] EXCEPT !.lane = MapLane(mapping, @)]]
  IN [vg EXCEPT !.commits = newCommits,
                !.edges = remapEdgeLanes(vg.edges, mapping),
                !.totalLanes = Cardinality({newCommits[i].lane : i \in DOMAIN newCommits})]

applyLaneMapping(vg, mapping) ==
  LET newCommits == [i \in DOMAIN vg.commits |->
                       [vg.commits[i] EXCEPT !.lane = MapLane(mapping, @)]]
      newEdges == remapEdgeLanes(vg.edges, mapping)
      lastCommit(P(_)) == newCommits[CHOOSE i \in DOMAIN newCommits :
                            P(newCommits[i]) /\ \A j \in DOMAIN newCommits :
                                                   P(newCommits[j]) => j <= i]
      lastEdge(id) == newEdges[CHOOSE i \in DOMAIN newEdges :
                            newEdges[i].id = id /\ \A j \in DOMAIN newEdges :
                                                   newEdges[j].id = id => j <= i]
  IN [commits          |-> newCommits,
      edges            |-> newEdges,
      totalRows        |-> vg.totalRows,
      totalLanes       |-> vg.totalLanes,
      commitByHash     |-> [h \in {newCommits[i].hash : i \in DOMAIN newCommits} |->
                              lastCommit(LAMBDA c : c.hash = h)],
      commitByRow      |-> [r \in {newCommits[i].row : i \in DOMAIN newCommits} |->
                              lastCommit(LAMBDA c : c.row = r)],
      edgeById         |-> [id \in {newEdges[i].id : i \in DOMAIN newEdges} |-> lastEdge(id)],
      activeLanesAtRow |-> [r \in DOMAIN vg.activeLanesAtRow |->
                              SortAsc([i \in DOMAIN vg.activeLanesAtRow[r] |->
                                         MapLane(mapping, vg.activeLanesAtRow[r][i])])]]

\* locals of optimizeLanes on entry to the while loop
OptimizeStart(vg) ==
  [graph       |-> vg,
   crossings   |-> countCrossings(vg.edges),
   improved    |-> TRUE,
   laneMapping |-> [i \in 0..(vg.totalLanes - 1) |-> i],
   lane        |-> 0]

\* one iteration of `for (let lane = 0; lane < graph.totalLanes - 1; lane++)`
OptimizeTry(o) ==
  LET newMapping == SwapLanes(o.laneMapping, o.lane)
      newCrossings == countCrossings(remapEdgeLanes(o.graph.edges, newMapping))
  IN IF KeepSwap(newCrossings, o.crossings)
       THEN [o EXCEPT !.laneMapping = newMapping, !.improved = TRUE, !.lane = @ + 1]
       ELSE [o EXCEPT !.lane = @ + 1]

\* the value optimizeLanes returns once the while loop has ended
OptimizeResult(o) ==
  IF \A k \in DOMAIN o.laneMapping : o.laneMapping[k] = k
    THEN o.graph
    ELSE applyLaneMapping(o.graph, o.laneMapping)

\* ------------------------------------------------------------------- state
VARIABLES
  commits,   \* buildGraph argument: the commit sequence
  refs,      \* buildGraph argument: the ref list
  head,      \* buildGraph argument: headCommit
  headRef,   \* buildGraph argument: headRef
  log,       \* records of the git log output handed to parseCommits
  refLines,  \* lines of the for-each-ref output handed to parseRefs
  protectedBranches, \* the protectedBranches option
  exec,      \* the GitExecutor, its running execute call and the repository
  graph,     \* the RepositoryGraph built
  loaded,    \* what loadRepository returned, when the graph came from it
  query,     \* the last traversal call and its result
  layout,    \* locals of the running createVisualGraph
  visual,    \* the VisualGraph createVisualGraph returned
  opt,       \* locals of the running optimizeLanes
  optimized, \* results of the optimizeLanes calls made so far, in order
  pc         \* position of the caller

vars == <<commits, refs, head, headRef, log, refLines, protectedBranches, exec, graph, loaded, query, layout, visual, opt,
          optimized, pc>>

inputs == <<commits, refs, head, headRef, log, refLines, protectedBranches>>

None == [none |-> TRUE]

\* head as the callers pass it: the first or the last commit listed
HeadChoices(cs) ==
  IF Len(cs) = 0 THEN {NULL} ELSE {cs[1].hash, cs[Len(cs)].hash}

Blank ==
  /\ log = <<>>
  /\ refLines = <<>>
  /\ protectedBranches = DefaultProtectedBranches
  /\ exec = None
  /\ graph = None
  /\ loaded = None
  /\ query = None
  /\ layout = None
  /\ visual = None
  /\ opt = None
  /\ optimized = <<>>
  /\ pc = "start"

Init ==
  /\ commits \in CommitSeqs(MaxCommits)
  /\ refs = <<>>
  /\ head \in HeadChoices(commits)
  /\ headRef = NoName
  /\ Blank

\* graph = buildGraph(commits, refs, head, headRef)
BuildGraph ==
  /\ pc = "start"
  /\ graph' = buildGraph(commits, refs, head, headRef)
  /\ pc' = "built"
  /\ UNCHANGED <<inputs, exec, loaded, query, layout, visual, opt, optimized>>

\* createVisualGraph(graph) is entered
LayoutBegin ==
  /\ pc = "built"
  /\ layout' = LayoutStart(graph)
  /\ pc' = "layout"
  /\ UNCHANGED <<inputs, exec, graph, loaded, query, visual, opt, optimized>>

\* one row of the main loop; an exception ends the call
LayoutRow ==
  /\ pc = "layout"
  /\ layout.row < Len(layout.orderedHashes)
  /\ IF LayoutRowThrows(layout, graph, protectedBranches)
       THEN layout' = layout /\ pc' = "failed"
       ELSE layout' = LayoutRowOf(layout, graph, protectedBranches) /\ pc' = pc
  /\ UNCHANGED <<inputs, exec, graph, loaded, query, visual, opt, optimized>>

\* the second pass and the return
LayoutReturn ==
  /\ pc = "layout"
  /\ layout.row >= Len(layout.orderedHashes)
  /\ visual' = LayoutResult(layout)
  /\ pc' = "visual"
  /\ UNCHANGED <<inputs, exec, graph, loaded, query, layout, opt, optimized>>

\* the graph the next optimizeLanes call is given: the layout first, then
\* the previous call's result
OptimizeInput == IF Len(optimized) = 0 THEN visual ELSE optimized[Len(optimized)]

\* optimizeLanes(g) is entered; without crossings it returns g at once
OptimizeBegin ==
  /\ pc = "visual"
  /\ Len(optimized) < 2
  /\ IF countCrossings(OptimizeInput.edges) = 0
       THEN /\ optimized' = Append(optimized, OptimizeInput)
            /\ UNCHANGED <<opt, pc>>
       ELSE /\ opt' = OptimizeStart(OptimizeInput)
            /\ pc' = "opt_while"
            /\ UNCHANGED optimized
  /\ UNCHANGED <<inputs, exec, graph, loaded, query, layout, visual>>

\* `while (improved)` is tested and a pass begins
OptimizePass ==
  /\ pc = "opt_while"
  /\ opt.improved
  /\ opt' = [opt EXCEPT !.improved = FALSE, !.lane = 0]
  /\ pc' = "opt_for"
  /\ UNCHANGED <<inputs, exec, graph, loaded, query, layout, visual, optimized>>

\* one adjacent pair of the pass
OptimizeSwap ==
  /\ pc = "opt_for"
  /\ opt.lane < opt.graph.totalLanes - 1
  /\ opt' = OptimizeTry(opt)
  /\ UNCHANGED <<inputs, exec, graph, loaded, query, layout, visual, optimized, pc>>

\* the pass is over
OptimizePassEnd ==
  /\ pc = "opt_for"
  /\ opt.lane >= opt.graph.totalLanes - 1
  /\ pc' = "opt_while"
  /\ UNCHANGED <<inputs, exec, graph, loaded, query, layout, visual, opt, optimized>>

\* the loop has ended: optimizeLanes returns
OptimizeReturn ==
  /\ pc = "opt_while"
  /\ ~opt.improved
  /\ optimized' = Append(optimized, OptimizeResult(opt))
  /\ opt' = None
  /\ pc' = "visual"
  /\ UNCHANGED <<inputs, exec, graph, loaded, query, layout, visual>>

Next ==
  \/ BuildGraph
  \/ LayoutBegin
  \/ LayoutRow
  \/ LayoutReturn
  \/ OptimizeBegin
  \/ OptimizePass
  \/ OptimizeSwap
  \/ OptimizePassEnd
  \/ OptimizeReturn

Spec == Init /\ [][Next]_vars

FairInit ==
  /\ commits \in UNION {OldestFirstSeqs(n) : n \in 0..MaxFairCommits}
  /\ refs = <<>>
  /\ head = IF Len(commits) = 0 THEN NULL ELSE commits[Len(commits)].hash
  /\ headRef = NoName
  /\ Blank

\* the calls run to completion: a step that can be taken is taken
FairSpec == FairInit /\ [][Next]_vars /\ WF_vars(Next)

\* ------------------------------------------------------ layout utilities
\* getVisibleCommits(graph, startRow, endRow)
RECURSIVE getVisibleCommits(_, _, _)
getVisibleCommits(vg, startRow, endRow) ==
  IF startRow <= endRow /\ startRow < vg.totalRows
    THEN (IF MapHas(vg.commitByRow, startRow) THEN <<vg.commitByRow[startRow]>> ELSE <<>>)
           \o getVisibleCommits(vg, startRow + 1, endRow)
    ELSE <<>>

\* getVisibleEdges(graph, startRow, endRow): the edges that overlap the
\* range, each id once
getVisibleEdges(vg, startRow, endRow) ==
  LET overlaps(edge) == /\ Max2(edge.fromRow, edge.toRow) >= startRow
                        /\ Min2(edge.fromRow, edge.toRow) <= endRow
      firstWithId(i) == \A j \in 1..(i - 1) : ~(overlaps(vg.edges[j]) /\ vg.edges[j].id = vg.edges[i].id)
      kept == SelectSeq([i \in DOMAIN vg.edges |-> [at |-> i, edge |-> vg.edges[i]]],
                        LAMBDA x : overlaps(x.edge) /\ firstWithId(x.at))
  IN [i \in DOMAIN kept |-> kept[i].edge]

\* the loop over commits of getBoundingBox
RECURSIVE BoxOverCommits(_, _, _)
BoxOverCommits(box, cs, i) ==
  IF i > Len(cs) THEN box
  ELSE BoxOverCommits([minRow  |-> Min2(box.minRow, cs[i].row),
                       maxRow  |-> Max2(box.maxRow, cs[i].row),
                       minLane |-> Min2(box.minLane, cs[i].lane),
                       maxLane |-> Max2(box.maxLane, cs[i].lane)], cs, i + 1)

\* the loop over edges of getBoundingBox
RECURSIVE BoxOverEdges(_, _, _)
BoxOverEdges(box, es, i) ==
  IF i > Len(es) THEN box
  ELSE BoxOverEdges([box EXCEPT
                       !.minLane = Min2(Min2(@, es[i].fromLane), es[i].toLane),
                       !.maxLane = Max2(Max2(@, es[i].fromLane), es[i].toLane)], es, i + 1)

getBoundingBox(cs, es) ==
  IF Len(cs) = 0 THEN [minRow |-> 0, maxRow |-> 0, minLane |-> 0, maxLane |-> 0]
  ELSE BoxOverEdges(BoxOverCommits([minRow |-> Infinity, maxRow |-> -Infinity,
                                    minLane |-> Infinity, maxLane |-> -Infinity], cs, 1),
                    es, 1)

\* the commits and edges of a row range of the laid-out graph and their
\* bounding box: getBoundingBox(getVisibleCommits(...), getVisibleEdges(...))
GetBoundingBox ==
  /\ pc = "visual"
  /\ \E startRow \in 0..MaxCommits : \E endRow \in startRow..MaxCommits :
        LET cs == getVisibleCommits(visual, startRow, endRow)
            es == getVisibleEdges(visual, startRow, endRow)
        IN query' = [op |-> "getBoundingBox", startRow |-> startRow, endRow |-> endRow,
                     commits |-> cs, edges |-> es, result |-> getBoundingBox(cs, es)]
  /\ pc' = "queried"
  /\ UNCHANGED <<inputs, exec, graph, loaded, layout, visual, opt, optimized>>

ViewNext ==
  \/ BuildGraph
  \/ LayoutBegin
  \/ LayoutRow
  \/ LayoutReturn
  \/ GetBoundingBox

ViewSpec == Init /\ [][ViewNext]_vars

\* -------------------------------------------------------------- mutations
\* isProtectedBranch(name, patterns) from pattern i on: a pattern is made a
\* regular expression only when it contains "*"
RECURSIVE ProtectedBranchOutcome(_, _, _)
ProtectedBranchOutcome(name, patterns, i) ==
  IF i > Len(patterns) THEN "false"
  ELSE IF patterns[i] = name THEN "true"
  ELSE IF Contains(patterns[i], "*") /\ RegExpThrows(patterns[i]) THEN "SyntaxError"
  ELSE IF Contains(patterns[i], "*") /\ GlobFrom(name, 1, patterns[i], 1) THEN "true"
  ELSE ProtectedBranchOutcome(name, patterns, i + 1)

isProtectedBranch(name, patterns) == ProtectedBranchOutcome(name, patterns, 1) = "true"

DEFAULT_MUTATION_CONFIG ==
  [protectedBranches |-> <<<<"main">>, <<"master">>, <<"develop">>,
                           <<"release", "/", "*">>, <<"production">>>>,
   allowForceDelete |-> FALSE,
   allowDeleteCurrentBranch |-> FALSE,
   allowDeleteRemote |-> FALSE]

\* errors and warnings are named by what they say
validateBranchDelete(mutation, config, g) ==
  LET protected == isProtectedBranch(mutation.branchName, config.protectedBranches)
      current == g.headRef = mutation.branchName
      remote == mutation.branchType = "remote"
      unmerged == ~mutation.isFullyMerged
  IN [errors |->
        (IF protected THEN <<"protected">> ELSE <<>>)
          \o (IF current /\ ~config.allowDeleteCurrentBranch THEN <<"current_branch">> ELSE <<>>)
          \o (IF remote /\ ~config.allowDeleteRemote THEN <<"remote_disabled">> ELSE <<>>)
          \o (IF unmerged /\ ~mutation.force /\ ~config.allowForceDelete
                THEN <<"not_fully_merged">> ELSE <<>>),
      warnings |->
        (IF current /\ config.allowDeleteCurrentBranch THEN <<"head_detached">> ELSE <<>>)
          \o (IF remote THEN <<"remote_tracking_only">> ELSE <<>>)
          \o (IF unmerged /\ ~(~mutation.force /\ ~config.allowForceDelete) /\ mutation.force
                THEN <<"lost_commits">> ELSE <<>>)]

validateBranchRename(mutation, config, g) ==
  [errors |->
     (IF isProtectedBranch(mutation.oldName, config.protectedBranches)
        THEN <<"protected">> ELSE <<>>)
       \o (IF \E i \in DOMAIN g.refs :
                 g.refs[i].type = "local" /\ g.refs[i].name = mutation.newName
             THEN <<"exists">> ELSE <<>>),
   warnings |->
     IF isProtectedBranch(mutation.newName, config.protectedBranches)
       THEN <<"new_name_protected">> ELSE <<>>]

validateTagDelete(mutation, config) ==
  [errors |-> <<>>, warnings |-> <<"local_tag_only">>]

\* validateMutation throws: isProtectedBranch reaches a pattern new RegExp
\* rejects
validateMutationThrows(mutation, config) ==
  \/ /\ mutation.type = "branch_delete"
     /\ ProtectedBranchOutcome(mutation.branchName, config.protectedBranches, 1) = "SyntaxError"
  \/ /\ mutation.type = "branch_rename"
     /\ \/ ProtectedBranchOutcome(mutation.oldName, config.protectedBranches, 1) = "SyntaxError"
        \/ ProtectedBranchOutcome(mutation.newName, config.protectedBranches, 1) = "SyntaxError"

validateMutation(mutation, config, g) ==
  LET r == IF mutation.type = "branch_delete" THEN validateBranchDelete(mutation, config, g)
           ELSE IF mutation.type = "branch_rename" THEN validateBranchRename(mutation, config, g)
           ELSE validateTagDelete(mutation, config)
  IN [valid |-> Len(r.errors) = 0, errors |-> r.errors, warnings |-> r.warnings]

\* checkBranchMerged: run is what execute(['branch', '--merged', head])
\* resolved with, its stdout the branch names git printed
checkBranchMerged(run, branch, g) ==
  IF g.head = NULL THEN FALSE
  ELSE IF ~run.ok \/ run.exitCode # 0 THEN FALSE
  ELSE Contains(run.stdout, branch.name)

buildBranchDeleteCommand(branch, force, isFullyMerged) ==
  IF branch.type = "remote"
    THEN <<<<"branch">>, IF force \/ ~isFullyMerged THEN <<"-D">> ELSE <<"-d">>,
           <<"-r">>, branch.name>>
    ELSE <<<<"branch">>, IF force \/ ~isFullyMerged THEN <<"-D">> ELSE <<"-d">>, branch.name>>

createBranchDeleteMutation(run, branch, force, g) ==
  LET isFullyMerged == checkBranchMerged(run, branch, g)
  IN [type          |-> "branch_delete",
      command       |-> buildBranchDeleteCommand(branch, force, isFullyMerged),
      isDestructive |-> ~isFullyMerged,
      warnings      |-> (IF ~isFullyMerged THEN <<"commits_not_in_head">> ELSE <<>>)
                          \o (IF branch.type = "remote" THEN <<"remote_tracking_only">> ELSE <<>>),
      branchName    |-> branch.name,
      branchType    |-> branch.type,
      isFullyMerged |-> isFullyMerged,
      force         |-> force \/ ~isFullyMerged,
      commitHash    |-> branch.commitHash]

\* ------------------------------------------- graph building and traversal
\* Ref names of the repositories checked, and the refs/... paths git prints.
BranchNames == {<<"main">>, <<"v1">>}

RefFullNames ==
  {HeadsPrefix \o n : n \in BranchNames}
    \cup {TagsPrefix \o <<"v1">>, RemotesPrefix \o <<"origin", "/", "main">>,
          RemotesPrefix \o <<"origin", "/", "HEAD">>}

\* the commits refs point at: the loaded one and commits beyond the load limit
RefTargets == 1..MaxRefs

\* for-each-ref output: up to MaxRefs lines with distinct full names
RefLineLists ==
  {l \in UNION {[1..k -> {<<h, f, "commit">> : h \in RefTargets, f \in RefFullNames}] :
                  k \in 0..MaxRefs} :
      \A i, j \in DOMAIN l : i # j => l[i][2] # l[j][2]}

\* histories without refs, to be traversed
GraphInit ==
  /\ commits \in UNION {OldestFirstSeqs(n) : n \in 0..MaxGraphCommits}
  /\ refs = <<>>
  /\ headRef = NoName
  /\ head \in HeadChoices(commits)
  /\ Blank

\* a one-commit history with refs and a HEAD that is detached or on a branch
RefInit ==
  /\ commits = <<[hash |-> 1, parents |-> <<>>]>>
  /\ headRef \in {NoName} \cup BranchNames
  /\ refs \in {parseRefs(l, headRef, <<>>).refs : l \in RefLineLists}
  /\ head \in HeadChoices(commits)
  /\ Blank

\* loadRepository(executor, options) for a repository whose git commands
\* print the commits, refs and HEAD of the state
LoadRepository ==
  /\ pc = "start"
  /\ \E verify, logRun \in {"ok", "nonzero", "error"},
        headRefRun, headCommitRun, refsRun \in {"ok", "nonzero"} :
        /\ headRefRun = "ok" => headRef # NoName
        /\ headCommitRun = "ok" => head # NULL
        /\ loaded' = loadRepository(verify, headRefRun, headCommitRun, logRun, refsRun,
                                    commits, refs, head, headRef)
  /\ IF loaded'.ok
       THEN graph' = loaded'.graph /\ pc' = "built"
       ELSE graph' = graph /\ pc' = "failed"
  /\ UNCHANGED <<inputs, exec, query, layout, visual, opt, optimized>>

\* getAncestors(graph, h, maxDepth)
GetAncestors ==
  /\ pc = "built"
  /\ \E h \in Hashes, d \in {1, 2, Infinity} :
        query' = [op |-> "getAncestors", hash |-> h, maxDepth |-> d,
                  result |-> getAncestors(graph, h, d)]
  /\ pc' = "queried"
  /\ UNCHANGED <<inputs, exec, graph, loaded, layout, visual, opt, optimized>>

\* findMergeBase(graph, a, b)
FindMergeBase ==
  /\ pc = "built"
  /\ \E a, b \in Hashes :
        query' = [op |-> "findMergeBase", hash1 |-> a, hash2 |-> b,
                  result |-> findMergeBase(graph, a, b)]
  /\ pc' = "queried"
  /\ UNCHANGED <<inputs, exec, graph, loaded, layout, visual, opt, optimized>>

\* getDescendants(graph, h, maxDepth)
GetDescendants ==
  /\ pc = "built"
  /\ \E h \in Hashes, d \in {1, 2, Infinity} :
        query' = [op |-> "getDescendants", hash |-> h, maxDepth |-> d,
                  result |-> getDescendants(graph, h, d)]
  /\ pc' = "queried"
  /\ UNCHANGED <<inputs, exec, graph, loaded, layout, visual, opt, optimized>>

\* getCommitsBetween(graph, includeRef, excludeRef)
GetCommitsBetween ==
  /\ pc = "built"
  /\ \E a, b \in Hashes :
        query' = [op |-> "getCommitsBetween", includeRef |-> a, excludeRef |-> b,
                  result |-> getCommitsBetween(graph, a, b)]
  /\ pc' = "queried"
  /\ UNCHANGED <<inputs, exec, graph, loaded, layout, visual, opt, optimized>>

GraphNext ==
  \/ BuildGraph
  \/ LoadRepository
  \/ GetAncestors
  \/ GetDescendants
  \/ FindMergeBase
  \/ GetCommitsBetween

GraphSpec == GraphInit /\ [][GraphNext]_vars

RefNext ==
  \/ BuildGraph
  \/ LoadRepository

RefSpec == RefInit /\ [][RefNext]_vars

\* no line of the output is printed twice
NoRepeatedLine(o) == \A i, j \in DOMAIN o : i # j => o[i] # o[j]

\* what execute(['branch', '--merged', head]) can resolve with for a graph
MergedRuns(g) ==
  LET locals == {g.refs[i].name : i \in {k \in DOMAIN g.refs : g.refs[k].type = "local"}}
  IN {[ok |-> FALSE, exitCode |-> 1, stdout |-> <<>>],
      [ok |-> TRUE, exitCode |-> 1, stdout |-> <<>>]}
       \cup {[ok |-> TRUE, exitCode |-> 0, stdout |-> out] :
               out \in {o \in UNION {[1..k -> locals] : k \in 0..Cardinality(locals)} :
                          NoRepeatedLine(o)}}

\* mutations a caller writes down itself
HandMutations ==
  {[type |-> "branch_delete", command |-> <<>>, isDestructive |-> ~m, warnings |-> <<>>,
    branchName |-> n, branchType |-> t, isFullyMerged |-> m, force |-> f, commitHash |-> 1] :
     n \in BranchNames, t \in {"local", "remote"}, m \in BOOLEAN, f \in BOOLEAN}
    \cup {[type |-> "branch_rename", command |-> <<>>, isDestructive |-> FALSE,
           warnings |-> <<>>, oldName |-> o, newName |-> n] :
            o \in BranchNames, n \in BranchNames}
    \cup {[type |-> "tag_delete", command |-> <<>>, isDestructive |-> FALSE,
           warnings |-> <<>>, tagName |-> <<"v1">>, commitHash |-> 1]}

MutationConfigs ==
  {[protectedBranches |-> p, allowForceDelete |-> f, allowDeleteCurrentBranch |-> c,
    allowDeleteRemote |-> r] :
     p \in {DEFAULT_MUTATION_CONFIG.protectedBranches, <<>>, <<<<"?", "*">>>>},
     f \in BOOLEAN, c \in BOOLEAN, r \in BOOLEAN}

\* createBranchDeleteMutation(executor, { branch, force, graph })
CreateBranchDeleteMutation ==
  /\ pc = "built"
  /\ \E i \in DOMAIN graph.refs : \E force \in BOOLEAN : \E run \in MergedRuns(graph) :
        /\ graph.refs[i].type \in {"local", "remote"}
        /\ query' = [op |-> "createBranchDeleteMutation", force |-> force,
                     result |-> createBranchDeleteMutation(run, graph.refs[i], force, graph)]
  /\ pc' = "mutation"
  /\ UNCHANGED <<inputs, exec, graph, loaded, layout, visual, opt, optimized>>

\* validateMutation(mutation, config, graph) of the mutation just built, or
\* of one written by hand
ValidateMutation ==
  /\ pc \in {"built", "mutation"}
  /\ \E config \in MutationConfigs :
     \E mutation \in (IF pc = "mutation" THEN {query.result} ELSE HandMutations) :
        IF validateMutationThrows(mutation, config)
          THEN /\ query' = [op |-> "validateMutation", threw |-> TRUE]
               /\ pc' = "failed"
          ELSE /\ query' = [op |-> "validateMutation", threw |-> FALSE,
                            mutation |-> mutation, config |-> config,
                            built |-> pc = "mutation",
                            forceAsked |-> pc = "mutation" /\ query.force,
                            result |-> validateMutation(mutation, config, graph)]
               /\ pc' = "validated"
  /\ UNCHANGED <<inputs, exec, graph, loaded, layout, visual, opt, optimized>>

MutationNext ==
  \/ BuildGraph
  \/ CreateBranchDeleteMutation
  \/ ValidateMutation

\* graphs with refs, and the mutations built and validated against them
MutationSpec == RefInit /\ [][MutationNext]_vars

\* ------------------------------------------------ git log output, parsed
\* What one record of the output looks like: blank, or a number of fields
\* with a hash field that is a hash, some other word or empty, and author
\* and committer dates that are ISO dates or not.
RecordKinds ==
  {[blank |-> FALSE, nfields |-> n, hash |-> hk, authorDateOk |-> a, commitDateOk |-> c] :
     n \in (EXPECTED_FIELDS - 2)..EXPECTED_FIELDS, hk \in {"ok", "bad", "empty"},
     a \in BOOLEAN, c \in BOOLEAN}
    \cup {[blank |-> TRUE, nfields |-> 0, hash |-> "empty",
           authorDateOk |-> FALSE, commitDateOk |-> FALSE]}

LogSeqs(n) == UNION {[1..k -> RecordKinds] : k \in 0..n}

\* the text of record i: its hash field spells hash i and, as git log puts a
\* newline after each entry, starts with white space when i > 1; its parent
\* field names hash i - 1, followed by a word that is no hash
RecordText(kind, i) ==
  IF kind.blank THEN <<Space, RECORD_SEPARATOR>>
  ELSE LET hashField == (IF i > 1 THEN <<Space>> ELSE <<>>)
                          \o (IF kind.hash = "ok" THEN <<HexWord(i)>>
                              ELSE IF kind.hash = "bad" THEN <<OtherWord>> ELSE <<>>)
           parentsField == IF i > 1 THEN <<HexWord(i - 1), Space, Space, OtherWord>> ELSE <<>>
           dateField(good) == IF good THEN <<IsoDate>> ELSE <<OtherWord>>
           fields == <<hashField, parentsField, <<OtherWord>>, <<OtherWord>>,
                       dateField(kind.authorDateOk), <<OtherWord>>, <<OtherWord>>,
                       dateField(kind.commitDateOk), <<OtherWord>>, <<OtherWord>>>>
       IN JoinFields(SubSeq(fields, 1, kind.nfields)) \o <<RECORD_SEPARATOR>>

RECURSIVE LogTextFrom(_, _)
LogTextFrom(lg, i) ==
  IF i > Len(lg) THEN (IF Len(lg) > 0 THEN <<Space>> ELSE <<>>)
  ELSE RecordText(lg[i], i) \o LogTextFrom(lg, i + 1)

LogText(lg) == LogTextFrom(lg, 1)

ParseInit ==
  /\ log \in LogSeqs(MaxRecords)
  /\ refLines = <<>>
  /\ protectedBranches = DefaultProtectedBranches
  /\ exec = None
  /\ commits = <<>>
  /\ refs = <<>>
  /\ head = NULL
  /\ headRef = NoName
  /\ graph = None
  /\ loaded = None
  /\ query = None
  /\ layout = None
  /\ visual = None
  /\ opt = None
  /\ optimized = <<>>
  /\ pc = "start"

\* parseCommits(raw)
ParseCommits ==
  /\ pc = "start"
  /\ query' = [op |-> "parseCommits", result |-> parseCommits(LogText(log))]
  /\ pc' = "parsed"
  /\ UNCHANGED <<inputs, exec, graph, loaded, layout, visual, opt, optimized>>

ParseNext == ParseCommits

ParseSpec == ParseInit /\ [][ParseNext]_vars

\* ------------------------------------------------- protected branches
NameChars == {"m", "x"}
PatternChars == NameChars \cup {"*", "?"}

ShortNames(n) == UNION {[1..k -> NameChars] : k \in 1..n}
Patterns(n) == UNION {[1..k -> PatternChars] : k \in 1..n}
PatternLists(n, k) == UNION {[1..m -> Patterns(n)] : m \in 0..k}

\* a local branch, a remote branch of origin and a tag of one short name
FullNamesOf(n) == {HeadsPrefix \o n, RemotesPrefix \o <<"origin", "/">> \o n, TagsPrefix \o n}

ExamplePatterns == <<<<"main">>, <<"release", "/", "*">>>>
ExampleNames == {<<"main">>, <<"release", "/", "1.0">>, <<"feature", "/", "x">>}

\* one commit, one for-each-ref line naming it, and the patterns
ProtectInit ==
  /\ commits = <<[hash |-> 1, parents |-> <<>>]>>
  /\ head = 1
  /\ headRef = NoName
  /\ refs = <<>>
  /\ log = <<>>
  /\ exec = None
  /\ \/ /\ protectedBranches \in PatternLists(MaxPatternLen, MaxPatterns)
        /\ \E n \in ShortNames(MaxNameLen) : \E f \in FullNamesOf(n) :
              refLines = <<<<1, f, "commit">>>>
     \/ /\ protectedBranches = ExamplePatterns
        /\ \E n \in ExampleNames : \E f \in FullNamesOf(n) :
              refLines = <<<<1, f, "commit">>>>
  /\ graph = None
  /\ loaded = None
  /\ query = None
  /\ layout = None
  /\ visual = None
  /\ opt = None
  /\ optimized = <<>>
  /\ pc = "start"

\* parseRefs(raw, { headBranch, protectedPatterns }); its refs are the refs
\* buildGraph is given; an exception ends the run
ParseRefs ==
  /\ pc = "start"
  /\ query = None
  /\ IF parseRefsThrows(refLines, headRef, protectedBranches)
       THEN /\ query' = [op |-> "parseRefs", threw |-> TRUE]
            /\ refs' = refs
            /\ pc' = "failed"
       ELSE /\ query' = [op |-> "parseRefs", threw |-> FALSE]
            /\ refs' = parseRefs(refLines, headRef, protectedBranches).refs
            /\ pc' = pc
  /\ UNCHANGED <<commits, head, headRef, log, refLines, protectedBranches,
                 exec, graph, loaded, layout, visual, opt, optimized>>

ProtectNext ==
  \/ ParseRefs
  \/ BuildGraph
  \/ LayoutBegin
  \/ LayoutRow
  \/ LayoutReturn

ProtectSpec == ProtectInit /\ [][ProtectNext]_vars

\* ---------------------------------------------------------------- executor
SAFE_SUBCOMMANDS ==
  {"rev-parse", "status", "log", "show-ref", "for-each-ref", "symbolic-ref", "branch",
   "tag", "show", "cat-file", "ls-tree", "ls-files", "diff", "diff-tree", "remote", "config"}

DANGEROUS_FLAGS ==
  {"--delete", "-d", "-D", "--force", "-f", "--move", "-m", "-M", "--set-upstream", "-u",
   "--unset", "--remove-section", "--rename-section", "--replace-all", "--add"}

ConfigReadFlags == {"--get", "--get-all", "--list", "-l", "--get-regexp"}

UnsafeRemoteOps ==
  {"add", "remove", "rm", "rename", "set-url", "set-head", "set-branches", "prune"}

\* the arguments callers pass in the model; "k=v" is the one with a "="
ArgWords ==
  {"branch", "config", "remote", "symbolic-ref", "push", "-D", "--get", "add", "x", "HEAD",
   "k=v"}

\* a.includes('=')
IncludesEquals(a) == a = "k=v"

ArgVectors(n) == UNION {[1..k -> ArgWords] : k \in 0..n}

\* a validateCommand without the special case for remote
validateCommandNoRemoteCase(args) ==
  IF Len(args) = 0 THEN "Empty command"
  ELSE IF args[1] \notin SAFE_SUBCOMMANDS THEN "Git subcommand not allowlisted"
  ELSE IF \E i \in DOMAIN args : args[i] \in DANGEROUS_FLAGS THEN "Dangerous flag not allowed"
  ELSE IF /\ args[1] = "config"
          /\ \/ ~\E i \in DOMAIN args : args[i] \in ConfigReadFlags
             \/ \E i \in DOMAIN args : IncludesEquals(args[i])
    THEN "git config is only allowed with read flags"
  ELSE "safe"

\* validateCommand(args): the message of the error thrown, or "safe"
validateCommand(args) ==
  IF Len(args) = 0 THEN "Empty command"
  ELSE IF args[1] \notin SAFE_SUBCOMMANDS THEN "Git subcommand not allowlisted"
  ELSE IF \E i \in DOMAIN args : args[i] \in DANGEROUS_FLAGS THEN "Dangerous flag not allowed"
  ELSE IF /\ args[1] = "config"
          /\ \/ ~\E i \in DOMAIN args : args[i] \in ConfigReadFlags
             \/ \E i \in DOMAIN args : IncludesEquals(args[i])
    THEN "git config is only allowed with read flags"
  ELSE IF args[1] = "remote" /\ \E i \in DOMAIN args : args[i] \in UnsafeRemoteOps
    THEN "git remote modification operations are not allowed"
  ELSE "safe"

\* stdout is counted in units of the cap
MAX_OUTPUT_SIZE == 1

Pending == [ok |-> FALSE, type |-> "pending", message |-> ""]

\* resolve(value): a promise keeps the first value it is resolved with
Resolve(e, value) ==
  [e EXCEPT !.resolveCalls = @ + 1,
            !.result = IF @ = Pending THEN value ELSE @]

\* the repository the git child process works on: branches, tags and what
\* HEAD points at
InitialRepo == [branches |-> {"main"}, tags |-> {}, head |-> "main"]

\* what a git process that runs to the end with these arguments leaves
\* behind: `git branch <name> [<start>]` creates the branch and
\* `git symbolic-ref HEAD <ref>` points HEAD at it
GitRun(args, repo) ==
  IF Len(args) >= 2 /\ args[1] = "branch" /\ args[2] = "x"
       /\ (Len(args) = 3 => args[3] = "HEAD")
    THEN [repo EXCEPT !.branches = @ \cup {"x"}]
  ELSE IF Len(args) = 3 /\ args[1] = "symbolic-ref" /\ args[2] = "HEAD" /\ args[3] = "x"
    THEN [repo EXCEPT !.head = "x"]
  ELSE repo

\* a new executor on the repository; gitAvailable is null until the first
\* call has probed
NewExecutor ==
  [gitAvailable |-> "null", calls |-> 0, probes |-> 0, spawns |-> 0, phase |-> "idle",
   args |-> <<>>, hasSignal |-> FALSE, killed |-> FALSE, timerPending |-> FALSE,
   timerFired |-> FALSE, forceKillPending |-> FALSE, aborted |-> FALSE,
   stdoutSize |-> 0, stderrSize |-> 0, signalled |-> FALSE,
   resolveCalls |-> 0, result |-> Pending, repo |-> InitialRepo]

\* `return new Promise(...)` up to the end of the executor function: the
\* child is spawned and the timer set
SpawnChild(e) ==
  [e EXCEPT !.phase = "running", !.spawns = @ + 1, !.timerPending = TRUE]

GitNotFound == [ok |-> FALSE, type |-> "git_not_found", message |-> "Git executable not found"]

\* execute(args, options) up to its first await or its return
ExecuteStart(e, args, hasSignal) ==
  LET call == [e EXCEPT !.calls = @ + 1, !.args = args, !.hasSignal = hasSignal,
                        !.killed = FALSE, !.timerPending = FALSE, !.timerFired = FALSE,
                        !.forceKillPending = FALSE, !.aborted = FALSE,
                        !.stdoutSize = 0, !.stderrSize = 0, !.signalled = FALSE,
                        !.resolveCalls = 0, !.result = Pending]
  IN IF validateCommand(args) # "safe"
       THEN [call EXCEPT !.phase = "returned",
                         !.result = [ok |-> FALSE, type |-> "unsafe_command",
                                     message |-> validateCommand(args)]]
     ELSE IF call.gitAvailable = "null"
       THEN [call EXCEPT !.phase = "probing", !.probes = @ + 1]
     ELSE IF call.gitAvailable = "false"
       THEN [call EXCEPT !.phase = "returned", !.result = GitNotFound]
     ELSE SpawnChild(call)

\* execute after `await this.isGitAvailable()`
ExecuteAfterProbe(e, available) ==
  IF available
    THEN SpawnChild([e EXCEPT !.gitAvailable = "true"])
    ELSE [e EXCEPT !.gitAvailable = "false", !.phase = "returned", !.result = GitNotFound]

\* the handler of child 'close'
OnClose(e, code, signal) ==
  LET cleared == [e EXCEPT !.timerPending = FALSE, !.phase = "closed"]
  IN IF e.killed /\ signal
       THEN Resolve(cleared, [ok |-> FALSE, type |-> "timeout",
                              message |-> "Git command timed out"])
     ELSE IF e.stdoutSize > MAX_OUTPUT_SIZE
       THEN Resolve(cleared, [ok |-> FALSE, type |-> "command_failed",
                              message |-> "Git output exceeded maximum size"])
     ELSE Resolve(cleared, [ok |-> TRUE, type |-> "ok",
                            message |-> IF signal THEN "exit 128"
                                        ELSE IF code = 0 THEN "exit 0" ELSE "exit 1"])

\* execute(args, options) is called on an idle executor
Execute ==
  /\ pc = "start"
  /\ exec.phase \in {"idle", "returned", "closed"}
  /\ exec.calls < MaxCalls
  /\ \E args \in ArgVectors(MaxArgs) : \E hasSignal \in BOOLEAN :
        exec' = ExecuteStart(exec, args, hasSignal)
  /\ UNCHANGED <<inputs, graph, loaded, query, layout, visual, opt, optimized, pc>>

\* the probe `git --version` ends: found or not
ProbeDone ==
  /\ exec.phase = "probing"
  /\ \E available \in BOOLEAN : exec' = ExecuteAfterProbe(exec, available)
  /\ UNCHANGED <<inputs, graph, loaded, query, layout, visual, opt, optimized, pc>>

\* the timeout timer fires
TimeoutFires ==
  /\ exec.phase \in {"running", "closed"}
  /\ exec.timerPending
  /\ exec' = [exec EXCEPT !.timerPending = FALSE, !.timerFired = TRUE, !.killed = TRUE,
                          !.signalled = (exec.phase = "running"),
                          !.forceKillPending = TRUE]
  /\ UNCHANGED <<inputs, graph, loaded, query, layout, visual, opt, optimized, pc>>

\* five seconds after the timeout: child.kill('SIGKILL')
ForceKill ==
  /\ exec.phase \in {"running", "closed"}
  /\ exec.forceKillPending
  /\ exec' = [exec EXCEPT !.forceKillPending = FALSE,
                          !.signalled = @ \/ exec.phase = "running"]
  /\ UNCHANGED <<inputs, graph, loaded, query, layout, visual, opt, optimized, pc>>

\* options.signal aborts
AbortSignal ==
  /\ exec.phase \in {"running", "closed"}
  /\ exec.hasSignal
  /\ ~exec.aborted
  /\ exec' = [exec EXCEPT !.aborted = TRUE, !.killed = TRUE,
                          !.signalled = @ \/ exec.phase = "running"]
  /\ UNCHANGED <<inputs, graph, loaded, query, layout, visual, opt, optimized, pc>>

\* a chunk arrives on stdout
StdoutData ==
  /\ exec.phase = "running"
  /\ exec.stdoutSize <= MAX_OUTPUT_SIZE
  /\ exec' = IF exec.stdoutSize + 1 <= MAX_OUTPUT_SIZE
               THEN [exec EXCEPT !.stdoutSize = @ + 1]
               ELSE IF ~exec.killed
                 THEN [exec EXCEPT !.stdoutSize = @ + 1, !.killed = TRUE, !.signalled = TRUE]
                 ELSE [exec EXCEPT !.stdoutSize = @ + 1]
  /\ UNCHANGED <<inputs, graph, loaded, query, layout, visual, opt, optimized, pc>>

\* a chunk arrives on stderr
StderrData ==
  /\ exec.phase = "running"
  /\ exec.stderrSize <= MAX_OUTPUT_SIZE
  /\ exec' = [exec EXCEPT !.stderrSize = @ + 1]
  /\ UNCHANGED <<inputs, graph, loaded, query, layout, visual, opt, optimized, pc>>

\* child 'error': the process could not be spawned
ChildError ==
  /\ exec.phase = "running"
  /\ exec.stdoutSize = 0
  /\ exec.stderrSize = 0
  /\ exec' = Resolve([exec EXCEPT !.timerPending = FALSE, !.phase = "errored"],
                     [ok |-> FALSE, type |-> "command_failed",
                      message |-> "Failed to spawn git"])
  /\ UNCHANGED <<inputs, graph, loaded, query, layout, visual, opt, optimized, pc>>

\* child 'close': the process ended by itself with an exit code, having done
\* its work when the code is 0, or was ended by a signal, ours or another's;
\* after a failed spawn the close carries the error code
ChildClose ==
  /\ \/ /\ exec.phase = "running"
        /\ \/ \E code \in {0, 1} :
                 exec' = OnClose([exec EXCEPT !.repo = IF code = 0 THEN GitRun(exec.args, @)
                                                         ELSE @],
                                 code, FALSE)
           \/ exec' = OnClose(exec, 1, TRUE)
     \/ /\ exec.phase = "errored"
        /\ exec' = OnClose(exec, 1, FALSE)
  /\ UNCHANGED <<inputs, graph, loaded, query, layout, visual, opt, optimized, pc>>

ExecInit ==
  /\ commits = <<>>
  /\ refs = <<>>
  /\ head = NULL
  /\ headRef = NoName
  /\ log = <<>>
  /\ refLines = <<>>
  /\ protectedBranches = DefaultProtectedBranches
  /\ \E available \in {"null", "true", "false"} :
        exec = [NewExecutor EXCEPT !.gitAvailable = available]
  /\ graph = None
  /\ loaded = None
  /\ query = None
  /\ layout = None
  /\ visual = None
  /\ opt = None
  /\ optimized = <<>>
  /\ pc = "start"

ExecNext ==
  \/ Execute
  \/ ProbeDone
  \/ TimeoutFires
  \/ ForceKill
  \/ AbortSignal
  \/ StdoutData
  \/ StderrData
  \/ ChildError
  \/ ChildClose

ExecSpec == ExecInit /\ [][ExecNext]_vars

\* --------------------------------------------- arbitrary commit sequences
\* buildGraph takes any array of commits: a hash may be listed more than
\* once, with the same or with other parents.
DupHashes == 1..2

DupCommits ==
  {[hash |-> h, parents |-> p] :
     h \in DupHashes, p \in ParentLists((DupHashes \cup UnloadedHashes))}

AnyCommitSeqs(n) == UNION {[1..k -> DupCommits] : k \in 0..n}

DupInit ==
  /\ commits \in AnyCommitSeqs(MaxDupCommits)
  /\ \A i \in DOMAIN commits : ~Contains(commits[i].parents, commits[i].hash)
  /\ refs = <<>>
  /\ headRef = NoName
  /\ head \in HeadChoices(commits)
  /\ Blank

DupSpec == DupInit /\ [][RefNext]_vars

\* ------------------------------------------------------------ properties
\* the commits of the input that are loaded, and the two orders of a sequence
IndexOfHash(cs, h) == CHOOSE i \in DOMAIN cs : cs[i].hash = h

IsLoaded(cs, h) == \E i \in DOMAIN cs : cs[i].hash = h

\* every commit is listed after its loaded parents
IsOldestFirst(cs) ==
  \A i \in DOMAIN cs : \A k \in DOMAIN cs[i].parents :
     IsLoaded(cs, cs[i].parents[k]) => IndexOfHash(cs, cs[i].parents[k]) < i

\* every commit is listed before its loaded parents (git log --topo-order)
IsTopoOrder(cs) ==
  \A i \in DOMAIN cs : \A k \in DOMAIN cs[i].parents :
     IsLoaded(cs, cs[i].parents[k]) => IndexOfHash(cs, cs[i].parents[k]) > i

LaidOut == visual # None

\* the visual commit placed for hash h
VisualCommitOf(vg, h) == vg.commits[CHOOSE i \in DOMAIN vg.commits : vg.commits[i].hash = h]

IsPlaced(vg, h) == \E i \in DOMAIN vg.commits : vg.commits[i].hash = h

IsStrictlyAscending(s) == \A i, j \in DOMAIN s : i < j => s[i] < s[j]

\* C1: for a topologicalOrder in git's --topo-order (children listed before
\* their parents), createVisualGraph gives every commit a smaller row than
\* each of its loaded parents.
C1_ChildrenAboveParents ==
  (LaidOut /\ IsTopoOrder(commits)) =>
     \A i \in DOMAIN commits : \A k \in DOMAIN commits[i].parents :
        IsLoaded(commits, commits[i].parents[k]) =>
           VisualCommitOf(visual, commits[i].hash).row
             < VisualCommitOf(visual, commits[i].parents[k]).row

\* C2: in createVisualGraph's result every activeLanesAtRow[r] is strictly
\* ascending and contains the lane of the commit placed at row r.
C2_ActiveLanesHoldOwnLane ==
  LaidOut =>
     \A r \in DOMAIN visual.activeLanesAtRow :
        /\ IsStrictlyAscending(visual.activeLanesAtRow[r])
        /\ Contains(visual.activeLanesAtRow[r], visual.commitByRow[r].lane)

\* C3: optimizeLanes terminates: once its loop is entered the call returns.
C3_OptimizeLanesTerminates == (pc = "opt_while") ~> (pc = "visual")

\* C4: optimizeLanes is idempotent: a second call, on the first call's
\* result, returns the same visual graph.
C4_OptimizeLanesIdempotent ==
  Len(optimized) = 2 => optimized[2] = optimized[1]

\* C9: in createVisualGraph's result every edge to a loaded commit has toRow
\* equal to that commit's row, every edge to a commit outside the loaded set
\* has toRow = -1, and edgeById holds the edge with the same toRow.
C9_EdgeToRow ==
  LaidOut =>
     \A i \in DOMAIN visual.edges :
        LET e == visual.edges[i]
        IN /\ IsLoaded(commits, e.toHash) => e.toRow = VisualCommitOf(visual, e.toHash).row
           /\ ~IsLoaded(commits, e.toHash) => e.toRow = -1
           /\ MapHas(visual.edgeById, e.id)
           /\ visual.edgeById[e.id].toRow = e.toRow

\* C9 witness: a laid-out graph with an edge to a loaded commit some rows
\* below and an edge to a commit that was not loaded.
C9_Witness ==
  /\ LaidOut
  /\ \E i, j \in DOMAIN visual.edges :
        /\ IsLoaded(commits, visual.edges[i].toHash)
        /\ visual.edges[i].toRow > visual.edges[i].fromRow + 1
        /\ ~IsLoaded(commits, visual.edges[j].toHash)
        /\ visual.edges[j].toRow = -1

\* C10: for a commit sequence listed oldest first, every edge's fromLane is
\* the lane of its source commit and, when the target is loaded, its toLane
\* is the lane of the target commit; all edges into one commit share a toLane.
C10_EdgeLanesMatchCommits ==
  (LaidOut /\ IsOldestFirst(commits)) =>
     /\ \A i \in DOMAIN visual.edges :
           LET e == visual.edges[i]
           IN /\ e.fromLane = VisualCommitOf(visual, e.fromHash).lane
              /\ IsLoaded(commits, e.toHash) =>
                    e.toLane = VisualCommitOf(visual, e.toHash).lane
     /\ \A i, j \in DOMAIN visual.edges :
           visual.edges[i].toHash = visual.edges[j].toHash =>
              visual.edges[i].toLane = visual.edges[j].toLane

\* C10 witness: an oldest-first history in which two children in different
\* lanes point at the same loaded parent.
C10_Witness ==
  /\ LaidOut
  /\ IsOldestFirst(commits)
  /\ \E i, j \in DOMAIN visual.edges :
        /\ visual.edges[i].toHash = visual.edges[j].toHash
        /\ IsLoaded(commits, visual.edges[i].toHash)
        /\ visual.edges[i].fromLane # visual.edges[j].fromLane

\* everything reachable from h by zero or more parent pointers
RECURSIVE ReachFrom(_, _, _)
ReachFrom(g, frontier, seen) ==
  LET next == UNION {Range(ParentsIn(g, x)) : x \in frontier} \ seen
  IN IF next = {} THEN seen ELSE ReachFrom(g, next, seen \cup next)

AncestorsOrSelf(g, h) == ReachFrom(g, {h}, {h})

CommonAncestors(g, a, b) == AncestorsOrSelf(g, a) \cap AncestorsOrSelf(g, b)

Built == graph # None

\* C5: getAncestors never returns a hash that is not a key of graph.commits.
C5_AncestorsAreLoaded ==
  (query # None /\ query.op = "getAncestors") =>
     \A i \in DOMAIN query.result : MapHas(graph.commits, query.result[i])

\* C6: a hash m returned by findMergeBase(a, b) is a lowest common ancestor
\* of a and b: it is a common ancestor and no other common ancestor is a
\* descendant of m.
C6_MergeBaseIsLowest ==
  (query # None /\ query.op = "findMergeBase" /\ query.result # NULL) =>
     /\ query.result \in CommonAncestors(graph, query.hash1, query.hash2)
     /\ \A x \in CommonAncestors(graph, query.hash1, query.hash2) \ {query.result} :
           query.result \notin AncestorsOrSelf(graph, x)

\* C7 as stated: after buildGraph, for every ref r of every ref list,
\* commitsByRef maps r.name and r.fullName to r.commitHash.
C7_BothNamesMapToOwnCommit ==
  Built =>
     \A i \in DOMAIN graph.refs :
        /\ MapHas(graph.commitsByRef, graph.refs[i].name)
        /\ graph.commitsByRef[graph.refs[i].name] = graph.refs[i].commitHash
        /\ MapHas(graph.commitsByRef, graph.refs[i].fullName)
        /\ graph.commitsByRef[graph.refs[i].fullName] = graph.refs[i].commitHash

\* the last ref of the list that carries key as its name or its fullName
LastRefNamed(rfs, key) ==
  rfs[CHOOSE i \in DOMAIN rfs :
        /\ key \in {rfs[i].name, rfs[i].fullName}
        /\ \A j \in DOMAIN rfs : key \in {rfs[j].name, rfs[j].fullName} => j <= i]

\* C7, amended: after buildGraph, for every ref r, r.name and r.fullName are
\* keys of commitsByRef and each maps to the commitHash of the last ref of
\* the list that carries that string as its name or fullName.
C7_LastRefWins ==
  Built =>
     \A i \in DOMAIN graph.refs :
        \A key \in {graph.refs[i].name, graph.refs[i].fullName} :
           /\ MapHas(graph.commitsByRef, key)
           /\ graph.commitsByRef[key] = LastRefNamed(graph.refs, key).commitHash

\* C7 witness: a graph built from two refs that share a short name and point
\* at different commits.
C7_Witness ==
  /\ Built
  /\ \E i, j \in DOMAIN graph.refs :
        /\ i < j
        /\ graph.refs[i].name = graph.refs[j].name
        /\ graph.refs[i].commitHash # graph.refs[j].commitHash
        /\ graph.commitsByRef[graph.refs[i].name] = graph.refs[j].commitHash

\* C8: a graph returned by buildGraph or by loadRepository whose headRef is
\* not null has headRef as a key of commitsByRef.
C8_HeadRefIsIndexed ==
  (Built /\ graph.headRef # NoName) => MapHas(graph.commitsByRef, graph.headRef)

\* the parents of the loaded commit h
ParentsOfLoaded(cs, h) == cs[IndexOfHash(cs, h)].parents

\* indices of the merge edges leaving h
MergeEdgesFrom(vg, h) ==
  {i \in DOMAIN vg.edges : vg.edges[i].fromHash = h /\ vg.edges[i].type = "merge"}

\* C11: every edge of createVisualGraph's result is merge iff its parentIndex
\* is at least 1 and its source has at least 2 parents, otherwise fork iff
\* fromLane differs from toLane, otherwise straight; a commit with k >= 2
\* parents has exactly k - 1 merge edges, those of parent indices 1..k-1.
C11_EdgeTypeRule ==
  LaidOut =>
     /\ \A i \in DOMAIN visual.edges :
           LET e == visual.edges[i]
               k == Len(ParentsOfLoaded(commits, e.fromHash))
           IN e.type = IF e.parentIndex >= 1 /\ k >= 2 THEN "merge"
                       ELSE IF e.fromLane # e.toLane THEN "fork"
                       ELSE "straight"
     /\ \A c \in DOMAIN commits :
           LET k == Len(commits[c].parents)
               merges == MergeEdgesFrom(visual, commits[c].hash)
           IN k >= 2 =>
                /\ Cardinality(merges) = k - 1
                /\ {visual.edges[i].parentIndex : i \in merges} = 1..(k - 1)

\* C11 witness: a laid-out merge commit whose first-parent edge is a fork and
\* whose second-parent edge is a merge, next to a straight edge.
C11_Witness ==
  /\ LaidOut
  /\ \E i, j, s \in DOMAIN visual.edges :
        /\ visual.edges[i].fromHash = visual.edges[j].fromHash
        /\ visual.edges[i].parentIndex = 0
        /\ visual.edges[i].type = "fork"
        /\ visual.edges[j].parentIndex = 1
        /\ visual.edges[j].type = "merge"
        /\ visual.edges[s].type = "straight"

\* each commit after the first has the commit listed before it as its only
\* parent; the first has no parent or one outside the loaded set
IsLinear(cs) ==
  /\ Len(cs) >= 1
  /\ Len(cs[1].parents) <= 1
  /\ \A i \in 2..Len(cs) : cs[i].parents = <<cs[i - 1].hash>>

\* C12: a linear history supplied oldest first is laid out in one lane:
\* totalLanes = 1, every commit in lane 0, every edge straight.
C12_LinearHistoryOneLane ==
  (LaidOut /\ IsLinear(commits)) =>
     /\ visual.totalLanes = 1
     /\ \A i \in DOMAIN visual.commits : visual.commits[i].lane = 0
     /\ \A i \in DOMAIN visual.edges : visual.edges[i].type = "straight"

\* C12 witness: a laid-out chain of MaxCommits commits with its edges.
C12_Witness ==
  /\ LaidOut
  /\ IsLinear(commits)
  /\ Len(commits) = MaxCommits
  /\ Len(visual.commits) = MaxCommits
  /\ Len(visual.edges) >= MaxCommits - 1

\* the graph the i-th optimizeLanes call was given
OptimizeInputOf(i) == IF i = 1 THEN visual ELSE optimized[i - 1]

CommitHashesOf(vg) == {vg.commits[i].hash : i \in DOMAIN vg.commits}

EdgeTriplesOf(vg) ==
  {<<vg.edges[i].fromHash, vg.edges[i].toHash, vg.edges[i].parentIndex>> :
     i \in DOMAIN vg.edges}

RowsOf(vg) == {<<vg.commits[i].hash, vg.commits[i].row>> : i \in DOMAIN vg.commits}

\* C13: whenever optimizeLanes returns, its result has the commit hashes,
\* the edge triples (fromHash, toHash, parentIndex), the row of every commit,
\* totalRows and totalLanes of the graph it was given.
C13_OptimizePreservesStructure ==
  \A i \in DOMAIN optimized :
     /\ CommitHashesOf(optimized[i]) = CommitHashesOf(OptimizeInputOf(i))
     /\ EdgeTriplesOf(optimized[i]) = EdgeTriplesOf(OptimizeInputOf(i))
     /\ RowsOf(optimized[i]) = RowsOf(OptimizeInputOf(i))
     /\ Len(optimized[i].commits) = Len(OptimizeInputOf(i).commits)
     /\ Len(optimized[i].edges) = Len(OptimizeInputOf(i).edges)
     /\ optimized[i].totalRows = OptimizeInputOf(i).totalRows
     /\ optimized[i].totalLanes = OptimizeInputOf(i).totalLanes

\* C13 witness: optimizeLanes returned a graph whose lanes differ from its
\* input's.
C13_Witness ==
  \E i \in DOMAIN optimized :
     \E c \in DOMAIN optimized[i].commits :
        optimized[i].commits[c].lane # OptimizeInputOf(i).commits[c].lane

\* C14: after buildGraph on any commit sequence, children is the inverse of
\* the parent relation of the stored commits: a stored commit c is listed in
\* children[p] for each of its parents p, and every c listed in children[p]
\* is a stored commit whose parents contain p.
C14_ChildrenInverseOfParents ==
  Built =>
     /\ \A h \in DOMAIN graph.commits :
           \A k \in DOMAIN graph.commits[h].parents :
              LET p == graph.commits[h].parents[k]
              IN MapHas(graph.children, p) /\ Contains(graph.children[p], h)
     /\ \A p \in DOMAIN graph.children :
           \A i \in DOMAIN graph.children[p] :
              LET c == graph.children[p][i]
              IN MapHas(graph.commits, c) /\ Contains(graph.commits[c].parents, p)

\* entries of the sequence that carry the same hash carry the same parents
SameHashSameParents(cs) ==
  \A i, j \in DOMAIN cs :
     cs[i].hash = cs[j].hash => Range(cs[i].parents) = Range(cs[j].parents)

\* C14, amended: after buildGraph on a commit sequence in which entries with
\* equal hashes have equal parents (every sequence of distinct hashes is
\* one), children is the inverse of the parent relation of the stored
\* commits, in both directions.
C14_ChildrenInverseWhenConsistent ==
  (Built /\ SameHashSameParents(commits)) =>
     /\ \A h \in DOMAIN graph.commits :
           \A k \in DOMAIN graph.commits[h].parents :
              LET p == graph.commits[h].parents[k]
              IN MapHas(graph.children, p) /\ Contains(graph.children[p], h)
     /\ \A p \in DOMAIN graph.children :
           \A i \in DOMAIN graph.children[p] :
              LET c == graph.children[p][i]
              IN MapHas(graph.commits, c) /\ Contains(graph.commits[c].parents, p)

\* C14 witness: a graph built from a sequence with a merge commit, a hash
\* listed twice with the same parents, and a parent outside the loaded set.
C14_Witness ==
  /\ Built
  /\ SameHashSameParents(commits)
  /\ \E i, j \in DOMAIN commits : i # j /\ commits[i].hash = commits[j].hash
  /\ \E i \in DOMAIN commits :
        /\ Len(commits[i].parents) = 2
        /\ \E k \in 1..2 : ~MapHas(graph.commits, commits[i].parents[k])
  /\ DOMAIN graph.children # {}

\* the stored commits none of whose parents is stored
ParentlessInGraph(g) ==
  {h \in DOMAIN g.commits :
     \A k \in DOMAIN g.commits[h].parents : ~MapHas(g.commits, g.commits[h].parents[k])}

\* C15: after buildGraph, roots holds exactly the stored commits that have
\* no parent inside commits, each of them a key of commits; createVisualGraph
\* sets isRoot for exactly the commits in roots.
C15_RootsAreParentless ==
  /\ Built =>
        /\ Range(graph.roots) = ParentlessInGraph(graph)
        /\ Range(graph.roots) \subseteq DOMAIN graph.commits
  /\ LaidOut =>
        \A i \in DOMAIN visual.commits :
           visual.commits[i].isRoot <=> visual.commits[i].hash \in Range(graph.roots)

\* C15 witness: a laid-out graph with a root without parents, a root whose
\* parents were all left unloaded, and a commit that is no root.
C15_Witness ==
  /\ LaidOut
  /\ \E i, j, k \in DOMAIN visual.commits :
        /\ visual.commits[i].isRoot
        /\ Len(graph.commits[visual.commits[i].hash].parents) = 0
        /\ visual.commits[j].isRoot
        /\ Len(graph.commits[visual.commits[j].hash].parents) > 0
        /\ ~visual.commits[k].isRoot

MergeBaseAsked == query # None /\ query.op = "findMergeBase"

\* C16: findMergeBase(a, b) returns null iff a and b have no common
\* ancestor, each commit counting as its own ancestor; a hash it returns is
\* reachable from a and from b by zero or more parent pointers, and
\* findMergeBase(a, a) = a.
C16_MergeBaseNullIffUnrelated ==
  MergeBaseAsked =>
     /\ query.result = NULL <=> CommonAncestors(graph, query.hash1, query.hash2) = {}
     /\ query.result # NULL =>
           query.result \in CommonAncestors(graph, query.hash1, query.hash2)
     /\ query.hash1 = query.hash2 => query.result = query.hash1

\* C16 witness: two loaded commits, neither an ancestor of the other, for
\* which findMergeBase found a common ancestor.
C16_Witness ==
  /\ MergeBaseAsked
  /\ MapHas(graph.commits, query.hash1)
  /\ MapHas(graph.commits, query.hash2)
  /\ query.hash1 \notin AncestorsOrSelf(graph, query.hash2)
  /\ query.hash2 \notin AncestorsOrSelf(graph, query.hash1)
  /\ query.result # NULL

BetweenAsked == query # None /\ query.op = "getCommitsBetween"

NoRepeats(s) == \A i, j \in DOMAIN s : i # j => s[i] # s[j]

\* C17: getCommitsBetween(include, exclude) returns, each once, exactly the
\* hashes reachable from include by zero or more parent steps that are not
\* so reachable from exclude; the result is empty when include is exclude
\* or one of its ancestors.
C17_CommitsBetweenIsDifference ==
  BetweenAsked =>
     /\ NoRepeats(query.result)
     /\ Range(query.result) =
          AncestorsOrSelf(graph, query.includeRef) \ AncestorsOrSelf(graph, query.excludeRef)
     /\ query.includeRef \in AncestorsOrSelf(graph, query.excludeRef) => query.result = <<>>

\* C17 witness: a call whose include side reaches a commit that the exclude
\* side reaches too, and which reports more than one commit.
C17_Witness ==
  /\ BetweenAsked
  /\ Len(query.result) >= 2
  /\ query.excludeRef \notin AncestorsOrSelf(graph, query.includeRef)
  /\ AncestorsOrSelf(graph, query.includeRef) \cap AncestorsOrSelf(graph, query.excludeRef) # {}

AllParentsLoaded(g) ==
  \A h \in DOMAIN g.commits : Range(g.commits[h].parents) \subseteq DOMAIN g.commits

\* the hashes exactly k parent steps (k child steps) away from h along some path
RECURSIVE NthParents(_, _, _)
NthParents(g, h, k) ==
  IF k = 0 THEN {h}
  ELSE UNION {Range(ParentsIn(g, x)) : x \in NthParents(g, h, k - 1)}

RECURSIVE NthChildren(_, _, _)
NthChildren(g, h, k) ==
  IF k = 0 THEN {h}
  ELSE UNION {Range(ChildrenIn(g, x)) : x \in NthChildren(g, h, k - 1)}

\* no path is longer than the number of stored commits
DepthCap(g, d) == Min2(d, Cardinality(DOMAIN g.commits))

AncestorsWithin(g, h, d) == UNION {NthParents(g, h, k) : k \in 1..DepthCap(g, d)}

DescendantsWithin(g, h, d) == UNION {NthChildren(g, h, k) : k \in 1..DepthCap(g, d)}

ParentDistance(g, h, x) ==
  CHOOSE k \in 1..Cardinality(DOMAIN g.commits) :
     x \in NthParents(g, h, k) /\ \A j \in 1..(k - 1) : x \notin NthParents(g, h, j)

ChildDistance(g, h, x) ==
  CHOOSE k \in 1..Cardinality(DOMAIN g.commits) :
     x \in NthChildren(g, h, k) /\ \A j \in 1..(k - 1) : x \notin NthChildren(g, h, j)

\* C18: in a graph whose parents are all loaded, getAncestors(h, d) returns
\* each commit reachable from h by 1..d parent steps exactly once, in order of
\* non-decreasing shortest distance, and never h; getDescendants does the
\* same over children; c is a descendant of p iff p is an ancestor of c.
C18_TraversalsAreBreadthFirst ==
  (Built /\ AllParentsLoaded(graph)) =>
     /\ (query # None /\ query.op = "getAncestors") =>
           /\ NoRepeats(query.result)
           /\ Range(query.result) = AncestorsWithin(graph, query.hash, query.maxDepth)
           /\ query.hash \notin Range(query.result)
           /\ \A i, j \in DOMAIN query.result :
                 i < j => ParentDistance(graph, query.hash, query.result[i])
                            <= ParentDistance(graph, query.hash, query.result[j])
     /\ (query # None /\ query.op = "getDescendants") =>
           /\ NoRepeats(query.result)
           /\ Range(query.result) = DescendantsWithin(graph, query.hash, query.maxDepth)
           /\ query.hash \notin Range(query.result)
           /\ \A i, j \in DOMAIN query.result :
                 i < j => ChildDistance(graph, query.hash, query.result[i])
                            <= ChildDistance(graph, query.hash, query.result[j])
     /\ \A c, p \in Hashes :
           Contains(getDescendants(graph, p, Infinity), c)
             <=> Contains(getAncestors(graph, c, Infinity), p)

\* C18 witness: a depth-limited getAncestors call in a fully loaded graph
\* that reports two parents and leaves out a
\* commit farther away than the limit.
C18_Witness ==
  /\ Built
  /\ AllParentsLoaded(graph)
  /\ query # None
  /\ query.op = "getAncestors"
  /\ query.maxDepth = 1
  /\ Len(query.result) = 2
  /\ AncestorsWithin(graph, query.hash, Infinity) # Range(query.result)

\* what the record of kind `kind` comes to
OutcomeOf(kind) ==
  IF kind.blank THEN "none"
  ELSE IF kind.nfields < 9 THEN "malformed_record"
  ELSE IF kind.hash # "ok" THEN "invalid_hash"
  ELSE IF ~kind.authorDateOk \/ ~kind.commitDateOk THEN "invalid_date"
  ELSE "commit"

RECURSIVE ExpectedCommits(_, _)
ExpectedCommits(lg, i) ==
  IF i > Len(lg) THEN <<>>
  ELSE (IF OutcomeOf(lg[i]) = "commit"
          THEN <<[hash |-> i, parents |-> IF i > 1 THEN <<i - 1>> ELSE <<>>]>>
          ELSE <<>>) \o ExpectedCommits(lg, i + 1)

RECURSIVE ExpectedErrors(_, _)
ExpectedErrors(lg, i) ==
  IF i > Len(lg) THEN <<>>
  ELSE (IF OutcomeOf(lg[i]) \in {"none", "commit"} THEN <<>> ELSE <<OutcomeOf(lg[i])>>)
         \o ExpectedErrors(lg, i + 1)

Parsed == query # None /\ query.op = "parseCommits"

\* C19: parseCommits gives every non-blank record one outcome, in input
\* order and whatever the other records are: malformed_record for fewer than
\* 9 fields, else invalid_hash, else invalid_date, else a commit; commits
\* plus errors number the non-blank records.
C19_OneOutcomePerRecord ==
  Parsed =>
     /\ query.result.commits = ExpectedCommits(log, 1)
     /\ query.result.errors = ExpectedErrors(log, 1)
     /\ Len(query.result.commits) + Len(query.result.errors)
          = Cardinality({i \in DOMAIN log : ~log[i].blank})

\* C19 witness: a record with an invalid hash followed by a good record
\* yields one invalid_hash error and one commit.
C19_Witness ==
  /\ Parsed
  /\ Len(log) = 2
  /\ OutcomeOf(log[1]) = "invalid_hash"
  /\ OutcomeOf(log[2]) = "commit"
  /\ query.result.errors = <<"invalid_hash">>
  /\ Len(query.result.commits) = 1
  /\ query.result.commits[1].hash = 2

\* value matches pattern from positions i and j on when "*" stands for any
\* run of characters and every other pattern character for itself
RECURSIVE WildcardFrom(_, _, _, _)
WildcardFrom(value, i, pattern, j) ==
  IF j > Len(pattern) THEN i > Len(value)
  ELSE IF pattern[j] = "*"
    THEN \E n \in i..(Len(value) + 1) : WildcardFrom(value, n, pattern, j + 1)
    ELSE i <= Len(value) /\ value[i] = pattern[j] /\ WildcardFrom(value, i + 1, pattern, j + 1)

SomePatternMatches(name) ==
  \E i \in DOMAIN protectedBranches : WildcardFrom(name, 1, protectedBranches[i], 1)

\* C20: a branch parseRefs returns, and a ref of the visual graph, is
\* protected iff some configured pattern matches its whole short name, "*"
\* matching any run of characters and every other character only itself.
C20_ProtectedIffPatternMatches ==
  /\ \A i \in DOMAIN refs :
        refs[i].type \in {"local", "remote"}
          => (refs[i].isProtected <=> SomePatternMatches(refs[i].name))
  /\ pc = "visual" =>
        \A i \in DOMAIN visual.commits : \A k \in DOMAIN visual.commits[i].refs :
           visual.commits[i].refs[k].isProtected
             <=> SomePatternMatches(visual.commits[i].refs[k].name)

BoxAsked == query # None /\ query.op = "getBoundingBox"

\* the rows and lanes of the given commits and of both ends of the given edges
BoxRows(cs, es) ==
  {cs[i].row : i \in DOMAIN cs} \cup {es[i].fromRow : i \in DOMAIN es}
    \cup {es[i].toRow : i \in DOMAIN es}

BoxLanes(cs, es) ==
  {cs[i].lane : i \in DOMAIN cs} \cup {es[i].fromLane : i \in DOMAIN es}
    \cup {es[i].toLane : i \in DOMAIN es}

IsMinOf(x, S) == x \in S /\ \A y \in S : x <= y
IsMaxOf(x, S) == x \in S /\ \A y \in S : x >= y

\* C21: getBoundingBox returns the minimum and maximum of row and of lane
\* over the given commits and both endpoints of the given edges, and the
\* all-zero box for an empty commit list.
C21_BoxIsMinMaxOfCommitsAndEdges ==
  BoxAsked =>
     IF Len(query.commits) = 0
       THEN query.result = [minRow |-> 0, maxRow |-> 0, minLane |-> 0, maxLane |-> 0]
       ELSE /\ IsMinOf(query.result.minRow, BoxRows(query.commits, query.edges))
            /\ IsMaxOf(query.result.maxRow, BoxRows(query.commits, query.edges))
            /\ IsMinOf(query.result.minLane, BoxLanes(query.commits, query.edges))
            /\ IsMaxOf(query.result.maxLane, BoxLanes(query.commits, query.edges))

Validated == query # None /\ query.op = "validateMutation" /\ ~query.threw

\* C22: with allowForceDelete = false, validateMutation rejects every
\* branch_delete of a branch that is not fully merged, the mutation
\* createBranchDeleteMutation builds for a caller who passed force = false
\* included.
C22_NoForceDeleteWithoutOptIn ==
  (/\ Validated
   /\ ~query.config.allowForceDelete
   /\ query.mutation.type = "branch_delete"
   /\ ~query.mutation.isFullyMerged)
    => ~query.result.valid

Called == exec # None /\ exec.calls > 0

\* the commands the executor is to refuse
MustBeRefused(args) ==
  \/ Len(args) = 0
  \/ args[1] \notin SAFE_SUBCOMMANDS
  \/ \E i \in DOMAIN args : args[i] \in DANGEROUS_FLAGS
  \/ /\ args[1] = "config"
     /\ \/ \A i \in DOMAIN args : args[i] \notin ConfigReadFlags
        \/ \E i \in DOMAIN args : IncludesEquals(args[i])
  \/ /\ args[1] = "remote"
     /\ \E i \in DOMAIN args : args[i] \in UnsafeRemoteOps

\* C23: execute returns unsafe_command, having spawned no process and not
\* probed for git, for an empty command, a subcommand off the allowlist, a
\* dangerous flag, a config without read flag or with "=", a modifying remote.
C23_UnsafeCommandsAreRefusedUnspawned ==
  (Called /\ MustBeRefused(exec.args))
    => /\ exec.phase = "returned"
       /\ exec.result.type = "unsafe_command"
       /\ exec.spawns = 0
       /\ exec.probes = 0

\* C23 witness: `remote add x` on an executor that has not probed yet is
\* refused and the executor still has not probed.
C23_Witness ==
  /\ Called
  /\ exec.args = <<"remote", "add", "x">>
  /\ exec.gitAvailable = "null"
  /\ exec.result.type = "unsafe_command"
  /\ exec.spawns = 0
  /\ exec.probes = 0

\* C24: whatever execute accepts is read-only, so the repository is the same
\* after any execute calls as before.
C24_ExecuteLeavesRepositoryAlone ==
  exec # None => exec.repo = InitialRepo

\* C30: execute resolves with a timeout error only if the timer fired before
\* the child closed; an output over the cap, without the timer, yields
\* command_failed with the size message.
C30_TimeoutOnlyWhenTimerFired ==
  Called =>
     /\ exec.result.type = "timeout" => exec.timerFired
     /\ (exec.phase = "closed" /\ exec.stdoutSize > MAX_OUTPUT_SIZE /\ ~exec.timerFired)
          => /\ exec.result.type = "command_failed"
             /\ exec.result.message = "Git output exceeded maximum size"

\* the crossing count of the input's edges under a lane mapping
CrossingsUnder(o, mapping) == countCrossings(remapEdgeLanes(o.graph.edges, mapping))

\* C25: in optimizeLanes the tentative swap of two adjacent lanes is kept
\* iff its crossing count is strictly lower than that of the mapping in
\* force just before the swap.
C25_SwapKeptIffStrictlyLower ==
  (pc = "opt_for" /\ opt.lane < opt.graph.totalLanes - 1)
    => (OptimizeTry(opt).laneMapping # opt.laneMapping
          <=> CrossingsUnder(opt, SwapLanes(opt.laneMapping, opt.lane))
                < CrossingsUnder(opt, opt.laneMapping))

\* the placed commits that list h among their parents
PlacedChildrenOf(vg, h) ==
  {i \in DOMAIN vg.commits : Contains(ParentsOfLoaded(commits, vg.commits[i].hash), h)}

\* the child of h with the smallest row
TopmostChildOf(vg, h) ==
  vg.commits[CHOOSE i \in PlacedChildrenOf(vg, h) :
               \A j \in PlacedChildrenOf(vg, h) : vg.commits[i].row <= vg.commits[j].row]

ListsAsFirstParent(c, h) ==
  LET ps == ParentsOfLoaded(commits, c.hash) IN Len(ps) > 0 /\ ps[1] = h

\* C26: with the input oldest first, a commit whose topmost child lists it
\* as first parent lies in that child's lane: the first parent inherits the
\* lane of the commit that first reserves it.
C26_FirstParentContinuesLane ==
  (LaidOut /\ IsOldestFirst(commits)) =>
     \A i \in DOMAIN visual.commits :
        LET p == visual.commits[i]
        IN (PlacedChildrenOf(visual, p.hash) # {}
              /\ ListsAsFirstParent(TopmostChildOf(visual, p.hash), p.hash))
             => p.lane = TopmostChildOf(visual, p.hash).lane

\* C26 witness: a side branch of two commits stays in its lane, beside lane
\* 0, because the older one is the first parent of the newer one.
C26_Witness ==
  /\ LaidOut
  /\ IsOldestFirst(commits)
  /\ \E i \in DOMAIN visual.commits :
        LET p == visual.commits[i]
        IN /\ PlacedChildrenOf(visual, p.hash) # {}
           /\ ListsAsFirstParent(TopmostChildOf(visual, p.hash), p.hash)
           /\ p.lane = TopmostChildOf(visual, p.hash).lane
           /\ p.lane > 0

\* the hashes that hold a reservation and have no visual commit yet
ReservedUnplaced(L) ==
  {h \in DOMAIN L.state.laneByCommit : ~MapHas(L.commitByHash, h)}

LanesAreExclusive(L) ==
  /\ \A h1, h2 \in ReservedUnplaced(L) :
        h1 # h2 => L.state.laneByCommit[h1] # L.state.laneByCommit[h2]
  /\ \A h \in ReservedUnplaced(L) :
        ~Contains(L.state.freeLanes, L.state.laneByCommit[h])

\* no commit strictly between the rows of the edge sits in the edge's toLane
EdgePathIsClear(vg, e) ==
  \A i \in DOMAIN vg.commits :
     (e.fromRow < vg.commits[i].row /\ vg.commits[i].row < e.toRow)
       => vg.commits[i].lane # e.toLane

\* C27: with the input oldest first and hashes distinct, after every row no
\* two commits that are not yet placed hold a reservation for the same lane
\* and no free lane is reserved for such a commit; in the result no commit
\* between the two ends of an edge to a loaded commit sits in the lane the
\* edge arrives in.
C27_LanesAreExclusive ==
  IsOldestFirst(commits) =>
     /\ pc = "layout" => LanesAreExclusive(layout)
     /\ LaidOut =>
          \A k \in DOMAIN visual.edges :
             IsLoaded(commits, visual.edges[k].toHash)
               => EdgePathIsClear(visual, visual.edges[k])

\* C27 witness: a layout in which a lane was freed and an edge to a loaded
\* commit passes a row on its way.
C27_Witness ==
  /\ LaidOut
  /\ IsOldestFirst(commits)
  /\ Len(layout.state.freeLanes) > 0
  /\ \E k \in DOMAIN visual.edges :
        /\ IsLoaded(commits, visual.edges[k].toHash)
        /\ visual.edges[k].toRow > visual.edges[k].fromRow + 1
        /\ EdgePathIsClear(visual, visual.edges[k])

HashesOf(vg) == {vg.commits[i].hash : i \in DOMAIN vg.commits}
LanesOf(vg) ==
  {vg.commits[i].lane : i \in DOMAIN vg.commits}
    \cup {vg.edges[k].fromLane : k \in DOMAIN vg.edges}
    \cup {vg.edges[k].toLane : k \in DOMAIN vg.edges}

\* the three indexes hold the elements of the two arrays and nothing else
IndexesMatchArrays(vg) ==
  /\ DOMAIN vg.commitByHash = HashesOf(vg)
  /\ \A i \in DOMAIN vg.commits : vg.commitByHash[vg.commits[i].hash] = vg.commits[i]
  /\ DOMAIN vg.commitByRow = {vg.commits[i].row : i \in DOMAIN vg.commits}
  /\ \A i \in DOMAIN vg.commits : vg.commitByRow[vg.commits[i].row] = vg.commits[i]
  /\ DOMAIN vg.edgeById = {vg.edges[k].id : k \in DOMAIN vg.edges}
  /\ \A k \in DOMAIN vg.edges : vg.edgeById[vg.edges[k].id] = vg.edges[k]

\* C28: for a graph with distinct hashes the layout numbers the rows by
\* array position, totalRows counts the loaded commits, totalLanes is the
\* highest allocated lane plus one and bounds every lane of a commit or an
\* edge, and commitByHash, commitByRow and edgeById hold exactly the
\* elements of commits and edges with the same coordinates.
C28_RowsTotalsAndIndexes ==
  LaidOut =>
     /\ \A i \in DOMAIN visual.commits : visual.commits[i].row = i - 1
     /\ visual.totalRows = Len(commits)
     /\ HashesOf(visual) = {commits[i].hash : i \in DOMAIN commits}
     /\ visual.totalLanes = layout.state.maxLane + 1
     /\ LanesOf(visual) \subseteq 0..(visual.totalLanes - 1)
     /\ (visual.commits # <<>>) => (visual.totalLanes - 1) \in LanesOf(visual)
     /\ IndexesMatchArrays(visual)

\* C28 witness: a layout of several lanes in which the second pass filled the
\* row of an edge that spans more than one row.
C28_Witness ==
  /\ LaidOut
  /\ visual.totalLanes >= 2
  /\ visual.totalRows >= 3
  /\ \E k \in DOMAIN visual.edges :
        /\ visual.edges[k].toRow > visual.edges[k].fromRow + 1
        /\ visual.edgeById[visual.edges[k].id].toRow = visual.edges[k].toRow

\* vgOut is vgIn with every lane l replaced by p[l]
RelabelledBy(vgIn, vgOut, p) ==
  /\ Len(vgOut.commits) = Len(vgIn.commits)
  /\ \A i \in DOMAIN vgIn.commits : vgOut.commits[i].lane = p[vgIn.commits[i].lane]
  /\ Len(vgOut.edges) = Len(vgIn.edges)
  /\ \A k \in DOMAIN vgIn.edges :
        /\ vgOut.edges[k].fromLane = p[vgIn.edges[k].fromLane]
        /\ vgOut.edges[k].toLane = p[vgIn.edges[k].toLane]
  /\ DOMAIN vgOut.activeLanesAtRow = DOMAIN vgIn.activeLanesAtRow
  /\ \A r \in DOMAIN vgIn.activeLanesAtRow :
        /\ Len(vgOut.activeLanesAtRow[r]) = Len(vgIn.activeLanesAtRow[r])
        /\ {vgOut.activeLanesAtRow[r][i] : i \in DOMAIN vgOut.activeLanesAtRow[r]}
             = {p[vgIn.activeLanesAtRow[r][i]] : i \in DOMAIN vgIn.activeLanesAtRow[r]}

SameLanePairs(vg) ==
  {<<i, j>> \in (DOMAIN vg.commits) \X (DOMAIN vg.commits) :
      vg.commits[i].lane = vg.commits[j].lane}

\* the edge ends whose lane is the lane of the commit at that end
AttachedEnds(vg) ==
  {<<k, "from">> : k \in {k \in DOMAIN vg.edges :
       IsPlaced(vg, vg.edges[k].fromHash)
         /\ vg.edges[k].fromLane = VisualCommitOf(vg, vg.edges[k].fromHash).lane}}
  \cup
  {<<k, "to">> : k \in {k \in DOMAIN vg.edges :
       IsPlaced(vg, vg.edges[k].toHash)
         /\ vg.edges[k].toLane = VisualCommitOf(vg, vg.edges[k].toHash).lane}}

\* C29: the result of optimizeLanes is its input with the lanes relabelled
\* by one permutation of 0..totalLanes-1, the same for commits, edges and
\* activeLanesAtRow: two commits share a lane in the result exactly when
\* they do in the input, an edge end has the lane of its commit in the
\* result exactly when it has in the input, and the input graph is as it
\* was before the call.
C29_OptimizeRelabelsByPermutation ==
  \A i \in DOMAIN optimized :
     /\ \E p \in Permutations(0..(OptimizeInputOf(i).totalLanes - 1)) :
           RelabelledBy(OptimizeInputOf(i), optimized[i], p)
     /\ SameLanePairs(optimized[i]) = SameLanePairs(OptimizeInputOf(i))
     /\ AttachedEnds(optimized[i]) = AttachedEnds(OptimizeInputOf(i))
     /\ visual = LayoutResult(layout)

\* C29 witness: optimizeLanes returned a relabelled graph in which two
\* commits share a lane whose number changed.
C29_Witness ==
  \E i \in DOMAIN optimized :
     /\ optimized[i] # OptimizeInputOf(i)
     /\ \E a, b \in DOMAIN optimized[i].commits :
           /\ a # b
           /\ optimized[i].commits[a].lane = optimized[i].commits[b].lane
           /\ optimized[i].commits[a].lane # OptimizeInputOf(i).commits[a].lane

====
